---- MODULE Spec2Model ----
(***************************************************************************)
(* Query builder of the GraphQL MCP server (utils/query-builder.js):       *)
(* the resolver registry, the inline-literal serializer toGraphQLLiteral,  *)
(* the aggregation block builder and the query assembler buildQuery.       *)
(*                                                                         *)
(* Text is modelled as a sequence of atoms whose concatenation is the      *)
(* JavaScript string: the fixed pieces of the template literals, one atom  *)
(* per identifier (field name, object key, resolver name), and one atom    *)
(* per character for string values and number digits.                      *)
(***************************************************************************)
EXTENDS Integers, Sequences, FiniteSets, TLC

VARIABLES
  registry,              \* RESOLVER_REGISTRY, the module-level object
  pc, op, arg, ret,      \* the caller of the exported builder functions
  seen,                  \* an earlier buildQuery call and what it returned
  hpc, hcall, hbuilt,    \* a tool handler call: position, tool and params,
  hsent, hresult,        \*   buildQuery's outcome, requests sent, result
  memoryCache, memoryCacheTimestamp,   \* schema-cache module variables
  cacheFile, now,        \* the cache file on disk and Date.now()
  getCall, setCall,      \* a getCachedSchema and a setCachedSchema call
                         \*   in flight: position and locals
  cleared                \* clearCache was the last call that wrote a cache

handlerVars == <<hpc, hcall, hbuilt, hsent, hresult>>
cacheVars ==
  <<memoryCache, memoryCacheTimestamp, cacheFile, now, getCall, setCall,
    cleared>>
vars == <<registry, pc, op, arg, ret, seen, handlerVars, cacheVars>>

(***************************************************************************)
(* Bounds of the input space.                                              *)
(***************************************************************************)
MaxDepth == 2
MaxFields == 2
MaxGroupBy == 2
MaxAggs == 2

(***************************************************************************)
(* JavaScript values.                                                      *)
(***************************************************************************)
UNDEFINED == [t |-> "undefined"]
NULL == [t |-> "null"]
Num(n) == [t |-> "number", n |-> n]
Bool(b) == [t |-> "boolean", b |-> b]
Str(s) == [t |-> "string", s |-> s]
Arr(a) == [t |-> "array", a |-> a]
Obj(o) == [t |-> "object", o |-> o]
Id(i) == [t |-> "ident", i |-> i]
List(l) == [t |-> "list", l |-> l]

\* JavaScript truthiness of a value (the operand of && and ||).
Truthy(v) ==
  IF v.t \in {"undefined", "null"} THEN FALSE
  ELSE IF v.t = "number" THEN v.n # 0
  ELSE IF v.t = "boolean" THEN v.b
  ELSE IF v.t = "string" THEN Len(v.s) > 0
  ELSE IF v.t = "ident" THEN v.i # ""
  ELSE TRUE

\* Object.keys(v).length
ObjectKeysLength(v) ==
  IF v.t = "object" THEN Len(v.o)
  ELSE IF v.t = "array" THEN Len(v.a)
  ELSE IF v.t = "string" THEN Len(v.s)
  ELSE 0

(***************************************************************************)
(* Generic text helpers: Array.prototype.join and Array.prototype.filter.  *)
(***************************************************************************)
RECURSIVE Join(_, _)
Join(parts, sep) ==
  IF Len(parts) = 0 THEN <<>>
  ELSE IF Len(parts) = 1 THEN parts[1]
  ELSE parts[1] \o sep \o Join(Tail(parts), sep)

Includes(seq, x) == \E i \in 1..Len(seq) : seq[i] = x

RECURSIVE Filter(_, _)
Filter(seq, known) ==
  IF Len(seq) = 0 THEN <<>>
  ELSE IF Includes(known, Head(seq))
       THEN <<Head(seq)>> \o Filter(Tail(seq), known)
       ELSE Filter(Tail(seq), known)

Atoms(names) == [i \in 1..Len(names) |-> <<names[i]>>]

(***************************************************************************)
(* RESOLVER_REGISTRY, in insertion order.                                  *)
(***************************************************************************)
RESOLVER_REGISTRY == <<
  [key |-> "UNION_REF_HSCODE",
   queryName |-> "uNION_REF_HSCODEs",
   fields |-> <<"Report_ID", "Industry_ID", "Industry", "HS_Code_Group",
                "HS_Code", "HS_Code_ZH", "Unit_Name", "Unit">>,
   numericFields |-> <<"Industry_ID">>],
  [key |-> "trade_monthly_by_code_country",
   queryName |-> "trade_monthly_by_code_countries",
   fields |-> <<"PERIOD_MONTH", "YEAR", "MONTH", "TRADE_FLOW", "HS_CODE",
                "HS_CODE_ZH", "COUNTRY_ID", "COUNTRY_COMM_ZH",
                "TRADE_VALUE_USD_AMT", "TRADE_VALUE_TWD_AMT", "TRADE_WEIGHT",
                "TRADE_QUANT", "UNIT_PRICE_USD_PER_KG", "ETL_DT">>,
   numericFields |-> <<"YEAR", "MONTH", "TRADE_VALUE_USD_AMT",
                       "TRADE_VALUE_TWD_AMT", "TRADE_WEIGHT", "TRADE_QUANT",
                       "UNIT_PRICE_USD_PER_KG">>],
  [key |-> "trade_monthly_by_group_country",
   queryName |-> "trade_monthly_by_group_countries",
   fields |-> <<"PERIOD_MONTH", "YEAR", "MONTH", "TRADE_FLOW", "INDUSTRY_ID",
                "INDUSTRY", "HS_CODE_GROUP", "COUNTRY_ID", "COUNTRY_COMM_ZH",
                "AREA_ID", "AREA_NM", "TRADE_VALUE_USD_AMT",
                "TRADE_VALUE_TWD_AMT", "TRADE_WEIGHT", "TRADE_QUANT",
                "UNIT_PRICE_USD_PER_KG", "ETL_DT">>,
   numericFields |-> <<"YEAR", "MONTH", "INDUSTRY_ID", "TRADE_VALUE_USD_AMT",
                       "TRADE_VALUE_TWD_AMT", "TRADE_WEIGHT", "TRADE_QUANT",
                       "UNIT_PRICE_USD_PER_KG">>],
  [key |-> "UNION_REF_COUNTRY_AREA",
   queryName |-> "uNION_REF_COUNTRY_AREAs",
   fields |-> <<"ISO3", "COUNTRY_COMM_ZH", "COUNTRY_COMM_EN", "AREA_ID",
                "AREA_NM", "ROW", "AREA_sort">>,
   numericFields |-> <<"ROW", "AREA_sort">>],
  [key |-> "TXN_MOF_NON_PROTECT_MT",
   queryName |-> "tXN_MOF_NON_PROTECT_MTs",
   fields |-> <<"TXN_DT", "HS_CODE", "HS_CODE_ZH", "HS_CODE_EN", "COUNTRY_ID",
                "COUNTRY_ZH", "COUNTRY_EN", "COUNTRY_COMM_ZH",
                "COUNTRY_COMM_EN", "TRADE_FLOW", "TRADE_VALUE_TWD_AMT",
                "TRADE_QUANT", "TRADE_WEIGHT_ORG", "TRADE_WEIGHT",
                "RATE_VALUE", "TRADE_VALUE_USD_AMT", "ETL_DT">>,
   numericFields |-> <<"TRADE_VALUE_TWD_AMT", "TRADE_QUANT",
                       "TRADE_WEIGHT_ORG", "TRADE_WEIGHT", "RATE_VALUE",
                       "TRADE_VALUE_USD_AMT">>] >>

\* Object.keys(RESOLVER_REGISTRY): the own keys, in insertion order.
ObjectKeys(reg) == [i \in 1..Len(reg) |-> reg[i].key]

\* The property names every plain object inherits from Object.prototype.
ObjectPrototypeKeys ==
  {"constructor", "hasOwnProperty", "isPrototypeOf", "propertyIsEnumerable",
   "toLocaleString", "toString", "valueOf", "__proto__", "__defineGetter__",
   "__defineSetter__", "__lookupGetter__", "__lookupSetter__"}

\* RESOLVER_REGISTRY[resolverKey]: an own descriptor, a member inherited from
\* Object.prototype (truthy, without queryName/fields), or undefined.
PropertyLookup(reg, resolverKey) ==
  IF \E i \in 1..Len(reg) : reg[i].key = resolverKey
  THEN [t |-> "descriptor",
        d |-> reg[CHOOSE i \in 1..Len(reg) : reg[i].key = resolverKey]]
  ELSE IF resolverKey \in ObjectPrototypeKeys
       THEN [t |-> "inherited"]
       ELSE UNDEFINED

(***************************************************************************)
(* toGraphQLLiteral                                                        *)
(***************************************************************************)
\* GRAPHQL_ENUMS = new Set(['ASC', 'DESC'])
GRAPHQL_ENUMS == {<<"A", "S", "C">>, <<"D", "E", "S", "C">>}

QUOTE == "\""
BACKSLASH == "\\"

\* JSON.stringify of one character of a string.
JsonEscapeChar(c) ==
  IF c = QUOTE THEN <<BACKSLASH, QUOTE>>
  ELSE IF c = BACKSLASH THEN <<BACKSLASH, BACKSLASH>>
  ELSE IF c = "\n" THEN <<BACKSLASH, "n">>
  ELSE IF c = "\t" THEN <<BACKSLASH, "t">>
  ELSE <<c>>

\* JSON.stringify(value) for a string value.
JSONStringify(s) ==
  <<QUOTE>> \o Join([i \in 1..Len(s) |-> JsonEscapeChar(s[i])], <<>>) \o <<QUOTE>>

Digits == <<"0", "1", "2", "3", "4", "5", "6", "7", "8", "9">>

RECURSIVE NatToText(_)
NatToText(n) ==
  IF n < 10 THEN <<Digits[n + 1]>>
  ELSE NatToText(n \div 10) \o <<Digits[(n % 10) + 1]>>

\* String(value) for an integer number.
NumberToString(n) == IF n < 0 THEN <<"-">> \o NatToText(-n) ELSE NatToText(n)

\* The string rule with the enum test weakened to a prefix test.
stringLiteral_enumPrefix(s) ==
  IF \E e \in GRAPHQL_ENUMS : Len(s) >= Len(e) /\ SubSeq(s, 1, Len(e)) = e
  THEN s ELSE JSONStringify(s)

\* The string rule: an enum value is bare, any other string is JSON-quoted.
stringLiteral(s) == IF s \in GRAPHQL_ENUMS THEN s ELSE JSONStringify(s)

\* The array rule, given the serialized elements.
arrayLiteral(items) == <<"[">> \o Join(items, <<", ">>) \o <<"]">>

\* The object rule with JSON-style quoted keys.
objectLiteral_quotedKeys(keys, values) ==
  <<"{ ">>
  \o Join([i \in 1..Len(keys) |-> <<QUOTE, keys[i], QUOTE, ": ">> \o values[i]],
          <<", ">>)
  \o <<" }">>

\* The object rule, given the keys and the serialized values.
objectLiteral(keys, values) ==
  <<"{ ">>
  \o Join([i \in 1..Len(keys) |-> <<keys[i], ": ">> \o values[i]], <<", ">>)
  \o <<" }">>

\* toGraphQLLiteral with the typeof 'object' test ahead of Array.isArray:
\* an array is serialized by the object rule, under its index keys.
RECURSIVE toGraphQLLiteral_objectBeforeArray(_)
toGraphQLLiteral_objectBeforeArray(value) ==
  IF value.t \in {"null", "undefined"} THEN <<"null">>
  ELSE IF value.t = "number" THEN NumberToString(value.n)
  ELSE IF value.t = "boolean" THEN (IF value.b THEN <<"true">> ELSE <<"false">>)
  ELSE IF value.t = "string" THEN stringLiteral(value.s)
  ELSE IF value.t = "array"
       THEN objectLiteral([i \in 1..Len(value.a) |-> Digits[i]],
                          [i \in 1..Len(value.a) |->
                             toGraphQLLiteral_objectBeforeArray(value.a[i])])
  ELSE objectLiteral([i \in 1..Len(value.o) |-> value.o[i].k],
                     [i \in 1..Len(value.o) |->
                        toGraphQLLiteral_objectBeforeArray(value.o[i].v)])

RECURSIVE toGraphQLLiteral(_)
toGraphQLLiteral(value) ==
  IF value.t \in {"null", "undefined"} THEN <<"null">>
  ELSE IF value.t = "number" THEN NumberToString(value.n)
  ELSE IF value.t = "boolean" THEN (IF value.b THEN <<"true">> ELSE <<"false">>)
  ELSE IF value.t = "string" THEN stringLiteral(value.s)
  ELSE IF value.t = "array"
       THEN arrayLiteral([i \in 1..Len(value.a) |-> toGraphQLLiteral(value.a[i])])
  ELSE objectLiteral([i \in 1..Len(value.o) |-> value.o[i].k],
                     [i \in 1..Len(value.o) |-> toGraphQLLiteral(value.o[i].v)])

(***************************************************************************)
(* buildAggregationBlock                                                   *)
(***************************************************************************)
NL8 == "\n        "
NL10 == "\n          "

\* The map callback without the numericFields membership test.
aggPart_anyField(agg, numericFields) ==
  LET fn == IF Truthy(agg.function) THEN agg.function.i ELSE "sum"
      field == agg.field
  IN IF Truthy(field)
     THEN <<fn, "(field: ", field.i, ")">>
     ELSE <<"count">>

\* The map callback with 'count' as the default of a missing function.
aggPart_defaultCount(agg, numericFields) ==
  LET fn == IF Truthy(agg.function) THEN agg.function.i ELSE "count"
      field == agg.field
  IN IF Truthy(field) /\ Includes(numericFields, field.i)
     THEN <<fn, "(field: ", field.i, ")">>
     ELSE <<"count">>

\* The callback of aggregations.map: one fragment per requested entry.
aggPart(agg, numericFields) ==
  LET fn == IF Truthy(agg.function) THEN agg.function.i ELSE "sum"
      field == agg.field
  IN IF Truthy(field) /\ Includes(numericFields, field.i)
     THEN <<fn, "(field: ", field.i, ")">>
     ELSE <<"count">>

\* The fragments joined as mapped, without the Set.
unique_keepsDuplicates(parts) == parts

\* [...new Set(aggParts)]: first occurrences, in order.
RECURSIVE unique(_)
unique(parts) ==
  IF Len(parts) = 0 THEN <<>>
  ELSE LET init == SubSeq(parts, 1, Len(parts) - 1)
           last == parts[Len(parts)]
       IN IF Includes(init, last) THEN unique(init)
          ELSE unique(init) \o <<last>>

\* buildAggregationBlock without the default count of an empty request.
buildAggregationBlock_noDefault(aggregations, numericFields) ==
  IF ~Truthy(aggregations) \/ Len(aggregations.l) = 0
  THEN <<"aggregations {\n          ", "\n        }">>
  ELSE LET aggParts == [i \in 1..Len(aggregations.l) |->
                          aggPart(aggregations.l[i], numericFields)]
       IN <<"aggregations {\n          ">>
          \o Join(unique(aggParts), <<NL10>>)
          \o <<"\n        }">>

buildAggregationBlock(aggregations, numericFields) ==
  IF ~Truthy(aggregations) \/ Len(aggregations.l) = 0
  THEN <<"aggregations {\n          ", "count", "\n        }">>
  ELSE LET aggParts == [i \in 1..Len(aggregations.l) |->
                          aggPart(aggregations.l[i], numericFields)]
       IN <<"aggregations {\n          ">>
          \o Join(unique(aggParts), <<NL10>>)
          \o <<"\n        }">>

(***************************************************************************)
(* buildQuery                                                              *)
(***************************************************************************)
Return(text) == [kind |-> "return", name |-> "", text |-> text]
Throw(name, text) == [kind |-> "throw", name |-> name, text |-> text]

\* queryArgs without the Object.keys(filter).length test.
queryArgs_emptyFilterKept(params) ==
  (IF params.first.t # "undefined" /\ params.first.t # "null"
   THEN << <<"first: ">> \o toGraphQLLiteral(params.first) >> ELSE <<>>)
  \o
  (IF params.after.t # "undefined" /\ params.after.t # "null"
   THEN << <<"after: ">> \o toGraphQLLiteral(params.after) >> ELSE <<>>)
  \o
  (IF Truthy(params.filter)
   THEN << <<"filter: ">> \o toGraphQLLiteral(params.filter) >> ELSE <<>>)
  \o
  (IF Truthy(params.orderBy) /\ ObjectKeysLength(params.orderBy) > 0
   THEN << <<"orderBy: ">> \o toGraphQLLiteral(params.orderBy) >> ELSE <<>>)

\* queryArgs testing first and after against undefined only.
queryArgs_nullEmitted(params) ==
  (IF params.first.t # "undefined"
   THEN << <<"first: ">> \o toGraphQLLiteral(params.first) >> ELSE <<>>)
  \o
  (IF params.after.t # "undefined"
   THEN << <<"after: ">> \o toGraphQLLiteral(params.after) >> ELSE <<>>)
  \o
  (IF Truthy(params.filter) /\ ObjectKeysLength(params.filter) > 0
   THEN << <<"filter: ">> \o toGraphQLLiteral(params.filter) >> ELSE <<>>)
  \o
  (IF Truthy(params.orderBy) /\ ObjectKeysLength(params.orderBy) > 0
   THEN << <<"orderBy: ">> \o toGraphQLLiteral(params.orderBy) >> ELSE <<>>)

\* The inline arguments pushed onto queryArgs, in push order.
queryArgs(params) ==
  (IF params.first.t # "undefined" /\ params.first.t # "null"
   THEN << <<"first: ">> \o toGraphQLLiteral(params.first) >> ELSE <<>>)
  \o
  (IF params.after.t # "undefined" /\ params.after.t # "null"
   THEN << <<"after: ">> \o toGraphQLLiteral(params.after) >> ELSE <<>>)
  \o
  (IF Truthy(params.filter) /\ ObjectKeysLength(params.filter) > 0
   THEN << <<"filter: ">> \o toGraphQLLiteral(params.filter) >> ELSE <<>>)
  \o
  (IF Truthy(params.orderBy) /\ ObjectKeysLength(params.orderBy) > 0
   THEN << <<"orderBy: ">> \o toGraphQLLiteral(params.orderBy) >> ELSE <<>>)

argsStr(params) ==
  IF Len(queryArgs(params)) > 0
  THEN <<"(">> \o Join(queryArgs(params), <<", ">>) \o <<")">>
  ELSE <<>>

\* selectedFields defaulting to the wrong descriptor property.
selectedFields_numericDefault(config, fields) ==
  IF Truthy(fields) /\ Len(fields.l) > 0
  THEN Filter(fields.l, config.fields)
  ELSE config.numericFields

\* selectedFields without the filter against config.fields.
selectedFields_unfiltered(config, fields) ==
  IF Truthy(fields) /\ Len(fields.l) > 0
  THEN fields.l
  ELSE config.fields

selectedFields(config, fields) ==
  IF Truthy(fields) /\ Len(fields.l) > 0
  THEN Filter(fields.l, config.fields)
  ELSE config.fields

itemsBlock(config, fields) == Join(Atoms(selectedFields(config, fields)), <<NL10>>)

\* groupByBlock emitted only when a known group-by field remains.
groupByBlock_skipWhenAllUnknown(config, groupBy, aggregations) ==
  IF Truthy(groupBy) /\ Len(groupBy.l) > 0
     /\ Len(Filter(groupBy.l, config.fields)) > 0
  THEN LET groupByFields == Filter(groupBy.l, config.fields)
           aggBlock == buildAggregationBlock(aggregations, config.numericFields)
       IN <<"\n      ", "groupBy(fields: [">>
          \o Join(Atoms(groupByFields), <<", ">>)
          \o <<"]) {\n        ", "fields {\n          ">>
          \o Join(Atoms(groupByFields), <<NL10>>)
          \o <<"\n        }", NL8>>
          \o aggBlock
          \o <<"\n      }">>
  ELSE <<>>

groupByBlock(config, groupBy, aggregations) ==
  IF Truthy(groupBy) /\ Len(groupBy.l) > 0
  THEN LET groupByFields == Filter(groupBy.l, config.fields)
           aggBlock == buildAggregationBlock(aggregations, config.numericFields)
       IN <<"\n      ", "groupBy(fields: [">>
          \o Join(Atoms(groupByFields), <<", ">>)
          \o <<"]) {\n        ", "fields {\n          ">>
          \o Join(Atoms(groupByFields), <<NL10>>)
          \o <<"\n        }", NL8>>
          \o aggBlock
          \o <<"\n      }">>
  ELSE <<>>

UnknownResolverMessage(reg, resolverKey) ==
  <<"Unknown resolver: ", resolverKey, ". Available resolvers: ">>
  \o Join(Atoms(ObjectKeys(reg)), <<", ">>)

\* buildQuery with the paging fields left out of a grouped query.
buildQuery_pageInfoOnlyUngrouped(reg, resolverKey, params) ==
  LET config == PropertyLookup(reg, resolverKey)
  IN IF config.t = "undefined"
     THEN Throw("Error", UnknownResolverMessage(reg, resolverKey))
     ELSE IF params.fields.t = "string" /\ Len(params.fields.s) > 0
     THEN \* a non-empty string has a length and no filter method
          Throw("TypeError", <<"fields.filter is not a function">>)
     ELSE IF config.t = "inherited"
     THEN \* config.fields is undefined
          IF Truthy(params.fields) /\ Len(params.fields.l) > 0
          THEN Throw("TypeError",
                     <<"Cannot read properties of undefined (reading '", "includes", "')">>)
          ELSE Throw("TypeError",
                     <<"Cannot read properties of undefined (reading '", "join", "')">>)
     ELSE Return(
            <<"query {\n    ", config.d.queryName>>
            \o argsStr(params)
            \o <<" {\n      ", "items {\n        ">>
            \o itemsBlock(config.d, params.fields)
            \o (IF Truthy(params.groupBy) /\ Len(params.groupBy.l) > 0
                THEN <<"\n      }">>
                ELSE <<"\n      }", "\n      ", "endCursor", "\n      ", "hasNextPage">>)
            \o groupByBlock(config.d, params.groupBy, params.aggregations)
            \o <<"\n    }", "\n  }">>)

\* buildQuery raising on a requested field the descriptor does not list.
buildQuery_rejectsUnknownFields(reg, resolverKey, params) ==
  LET config == PropertyLookup(reg, resolverKey)
  IN IF config.t = "undefined"
     THEN Throw("Error", UnknownResolverMessage(reg, resolverKey))
     ELSE IF params.fields.t = "string" /\ Len(params.fields.s) > 0
     THEN \* a non-empty string has a length and no filter method
          Throw("TypeError", <<"fields.filter is not a function">>)
     ELSE IF config.t = "inherited"
     THEN \* config.fields is undefined
          IF Truthy(params.fields) /\ Len(params.fields.l) > 0
          THEN Throw("TypeError",
                     <<"Cannot read properties of undefined (reading '", "includes", "')">>)
          ELSE Throw("TypeError",
                     <<"Cannot read properties of undefined (reading '", "join", "')">>)
     ELSE IF Truthy(params.fields)
             /\ \E n \in 1..Len(params.fields.l) :
                  ~Includes(config.d.fields, params.fields.l[n])
     THEN Throw("Error", <<"Unknown field">>)
     ELSE Return(
            <<"query {\n    ", config.d.queryName>>
            \o argsStr(params)
            \o <<" {\n      ", "items {\n        ">>
            \o itemsBlock(config.d, params.fields)
            \o <<"\n      }", "\n      ", "endCursor", "\n      ", "hasNextPage">>
            \o groupByBlock(config.d, params.groupBy, params.aggregations)
            \o <<"\n    }", "\n  }">>)

buildQuery(reg, resolverKey, params) ==
  LET config == PropertyLookup(reg, resolverKey)
  IN IF config.t = "undefined"
     THEN Throw("Error", UnknownResolverMessage(reg, resolverKey))
     ELSE IF params.fields.t = "string" /\ Len(params.fields.s) > 0
     THEN \* a non-empty string has a length and no filter method
          Throw("TypeError", <<"fields.filter is not a function">>)
     ELSE IF config.t = "inherited"
     THEN \* config.fields is undefined
          IF Truthy(params.fields) /\ Len(params.fields.l) > 0
          THEN Throw("TypeError",
                     <<"Cannot read properties of undefined (reading '", "includes", "')">>)
          ELSE Throw("TypeError",
                     <<"Cannot read properties of undefined (reading '", "join", "')">>)
     ELSE Return(
            <<"query {\n    ", config.d.queryName>>
            \o argsStr(params)
            \o <<" {\n      ", "items {\n        ">>
            \o itemsBlock(config.d, params.fields)
            \o <<"\n      }", "\n      ", "endCursor", "\n      ", "hasNextPage">>
            \o groupByBlock(config.d, params.groupBy, params.aggregations)
            \o <<"\n    }", "\n  }">>)

\* getRegisteredResolvers: one summary per registry entry, in key order.
getRegisteredResolvers(reg) ==
  [i \in 1..Len(reg) |->
     [key |-> reg[i].key, queryName |-> reg[i].queryName,
      fields |-> reg[i].fields, numericFields |-> reg[i].numericFields]]

(***************************************************************************)
(* Inputs.                                                                 *)
(***************************************************************************)
ASC == <<"A", "S", "C">>
DESC == <<"D", "E", "S", "C">>
ASC_COMPANY == <<"A", "S", "C", "_", "C", "O", "M", "P", "A", "N", "Y">>

StringPool ==
  {ASC, DESC, ASC_COMPANY, <<"a", "s", "c">>, <<"D", "E", "S", "C", " ">>,
   <<"1">>, <<>>, <<"a", QUOTE, "b">>, <<BACKSLASH>>, <<"x", "\n", "\t">>}

NumberPool == {0, 7, 2024, -15}

Scalars ==
  {NULL, UNDEFINED, Bool(TRUE), Bool(FALSE)}
  \cup {Num(n) : n \in NumberPool}
  \cup {Str(s) : s \in StringPool}

Siblings == {Str(ASC), Num(1)}

\* JSON-like values nested at most d levels deep.
RECURSIVE LiteralValues(_)
LiteralValues(d) ==
  IF d = 0 THEN Scalars
  ELSE LET inner == LiteralValues(d - 1)
       IN inner
          \cup {Arr(<<>>), Obj(<<>>)}
          \cup {Arr(<<v>>) : v \in inner}
          \cup {Arr(<<w, v>>) : v \in inner, w \in Siblings}
          \cup {Obj(<<[k |-> "ROW", v |-> v]>>) : v \in inner}
          \cup {Obj(<<[k |-> "NAME", v |-> v], [k |-> "eq", v |-> w]>>) :
                  v \in inner, w \in Siblings}

\* { and: [{YEAR:{eq:2024}}, {TRADE_FLOW:{eq:"1"}}] }
AndFilter ==
  Obj(<<[k |-> "and",
         v |-> Arr(<<Obj(<<[k |-> "YEAR",
                            v |-> Obj(<<[k |-> "eq", v |-> Num(2024)]>>)]>>),
                     Obj(<<[k |-> "TRADE_FLOW",
                            v |-> Obj(<<[k |-> "eq", v |-> Str(<<"1">>)]>>)]>>)>>)]>>)

YearFilter == Obj(<<[k |-> "YEAR", v |-> Obj(<<[k |-> "eq", v |-> Num(2024)]>>)]>>)

LiteralInputs == LiteralValues(MaxDepth) \cup {AndFilter, YearFilter}

\* Sequences over pool of length at most n.
RECURSIVE SeqsUpTo(_, _)
SeqsUpTo(pool, n) ==
  IF n = 0 THEN {<<>>}
  ELSE LET shorter == SeqsUpTo(pool, n - 1)
       IN shorter \cup {Append(q, x) : q \in shorter, x \in pool}

ResolverKeys ==
  {RESOLVER_REGISTRY[i].key : i \in 1..Len(RESOLVER_REGISTRY)}
  \cup {"unknown-key", "union_ref_hscode", "constructor"}

FirstPool == {UNDEFINED, NULL, Num(0), Num(10)}
AfterPool == {UNDEFINED, NULL, Str(<<"c", "1">>), Str(<<>>)}
FilterPool == {UNDEFINED, NULL, Obj(<<>>), YearFilter, AndFilter}
OrderByPool ==
  {UNDEFINED, NULL, Obj(<<>>),
   Obj(<<[k |-> "ROW", v |-> Str(ASC)]>>),
   Obj(<<[k |-> "YEAR", v |-> Str(DESC)], [k |-> "MONTH", v |-> Str(ASC)]>>)}

FieldPool == {"ISO3", "YEAR", "COUNTRY_COMM_ZH", "UNKNOWN_FIELD"}
FieldsPool == {UNDEFINED, NULL} \cup {List(q) : q \in SeqsUpTo(FieldPool, MaxFields)}

GroupByNames == {"YEAR", "AREA_NM", "UNKNOWN_FIELD"}
GroupByPool == {UNDEFINED} \cup {List(q) : q \in SeqsUpTo(GroupByNames, MaxGroupBy)}
GroupBySmall == {UNDEFINED, List(<<"YEAR">>), List(<<"UNKNOWN_FIELD">>),
                 List(<<"AREA_NM", "YEAR">>)}

AggEntries ==
  [field : {UNDEFINED, Id("YEAR"), Id("ISO3")},
   function : {UNDEFINED, Id("avg"), Id("sum")}]
AggPool == {UNDEFINED} \cup {List(q) : q \in SeqsUpTo(AggEntries, MaxAggs)}
AggSmall == {UNDEFINED, List(<<[field |-> Id("YEAR"), function |-> Id("avg")]>>)}

Bag(first, after, filter, orderBy, fields, groupBy, aggregations) ==
  [first |-> first, after |-> after, filter |-> filter, orderBy |-> orderBy,
   fields |-> fields, groupBy |-> groupBy, aggregations |-> aggregations]

\* Parameter bags: every combination of the four arguments, of field
\* selections, and of group-by lists with aggregation requests.
ParamBags ==
  {Bag(f, a, fl, o, UNDEFINED, g, UNDEFINED) :
     f \in FirstPool, a \in AfterPool, fl \in FilterPool, o \in OrderByPool,
     g \in {UNDEFINED, List(<<"YEAR">>)}}
  \cup
  {Bag(f, UNDEFINED, UNDEFINED, UNDEFINED, s, g, UNDEFINED) :
     f \in {UNDEFINED, Num(10)}, s \in FieldsPool, g \in GroupBySmall}
  \cup
  {Bag(UNDEFINED, UNDEFINED, UNDEFINED, UNDEFINED, UNDEFINED, g, ag) :
     g \in {List(<<"YEAR">>)}, ag \in AggPool}
  \cup
  {Bag(UNDEFINED, UNDEFINED, fl, UNDEFINED, UNDEFINED, g, ag) :
     fl \in {UNDEFINED, YearFilter}, g \in GroupByPool, ag \in AggSmall}

(***************************************************************************)
(* The state machine: a caller invokes one exported function at a time     *)
(* and consumes its result.                                                *)
(***************************************************************************)
NoArg == [none |-> TRUE]
NoResult == [kind |-> "none", name |-> "", text |-> <<>>]

\* Outside the builder at module load: no call remembered, no handler
\* running, both cache variables null (schema-cache.js lines 28-29), no
\* cache file written yet.
NotSeen == [set |-> FALSE]
NoCall == [tool |-> "none"]
NoHandlerResult == [kind |-> "none"]
NoFile == [exists |-> FALSE]
NoGet == [pc |-> "idle", ttlMs |-> 0, raw |-> NoFile, readable |-> FALSE,
          ret |-> NULL]
NoSet == [pc |-> "idle", schema |-> NULL, at |-> 0, wrote |-> FALSE]
InitEnvironment ==
  /\ seen = NotSeen
  /\ hpc = "idle"
  /\ hcall = NoCall
  /\ hbuilt = NoResult
  /\ hsent = <<>>
  /\ hresult = NoHandlerResult
  /\ memoryCache = NULL
  /\ memoryCacheTimestamp = NULL
  /\ cacheFile = NoFile
  /\ now = 1
  /\ getCall = NoGet
  /\ setCall = NoSet
  /\ cleared = FALSE

\* The table with a numeric field name that the fields list spells
\* differently.
Init_misspelledNumericField ==
  /\ registry = [RESOLVER_REGISTRY EXCEPT
                   ![5].numericFields = Append(@, "TRADE_VALUE_USD")]
  /\ pc = "idle"
  /\ op = "none"
  /\ arg = NoArg
  /\ ret = NoResult
  /\ InitEnvironment

Init ==
  /\ registry = RESOLVER_REGISTRY
  /\ pc = "idle"
  /\ op = "none"
  /\ arg = NoArg
  /\ ret = NoResult
  /\ InitEnvironment

\* The caller's bag after buildQuery(resolverKey, params) with a write into
\* the array it was handed: unknown names spliced out of params.fields.
paramsAfterBuildQuery_fieldsSpliced(reg, resolverKey, params) ==
  LET config == PropertyLookup(reg, resolverKey)
  IN IF config.t = "descriptor" /\ Truthy(params.fields)
     THEN [params EXCEPT !.fields = List(Filter(params.fields.l, config.d.fields))]
     ELSE params

\* The caller's bag after buildQuery(resolverKey, params): the members are
\* read by destructuring and only through filter, map, join, Object.keys
\* and Object.entries, none of which writes to its receiver.
paramsAfterBuildQuery(reg, resolverKey, params) == params

\* buildQuery writing the selection it computed back into the descriptor.
BuildQuery_cachesSelection(resolverKey, params) ==
  LET config == PropertyLookup(registry, resolverKey)
  IN /\ pc = "idle"
     /\ pc' = "done"
     /\ op' = "buildQuery"
     /\ arg' = [resolverKey |-> resolverKey, params |-> params,
                paramsAfter |-> paramsAfterBuildQuery(registry, resolverKey, params)]
     /\ ret' = buildQuery(registry, resolverKey, params)
     /\ registry' =
          IF config.t = "descriptor"
          THEN [i \in 1..Len(registry) |->
                  IF registry[i].key = resolverKey
                  THEN [registry[i] EXCEPT
                          !.fields = selectedFields(config.d, params.fields)]
                  ELSE registry[i]]
          ELSE registry
     /\ UNCHANGED <<seen, handlerVars, cacheVars>>

BuildQuery(resolverKey, params) ==
  /\ pc = "idle"
  /\ pc' = "done"
  /\ op' = "buildQuery"
  /\ arg' = [resolverKey |-> resolverKey, params |-> params,
             paramsAfter |-> paramsAfterBuildQuery(registry, resolverKey, params)]
  /\ ret' = buildQuery(registry, resolverKey, params)
  /\ UNCHANGED <<registry, seen, handlerVars, cacheVars>>

ToGraphQLLiteral(value) ==
  /\ pc = "idle"
  /\ pc' = "done"
  /\ op' = "toGraphQLLiteral"
  /\ arg' = [value |-> value]
  /\ ret' = Return(toGraphQLLiteral(value))
  /\ UNCHANGED <<registry, seen, handlerVars, cacheVars>>

BuildAggregationBlock(aggregations, i) ==
  /\ pc = "idle"
  /\ pc' = "done"
  /\ op' = "buildAggregationBlock"
  /\ arg' = [aggregations |-> aggregations,
             numericFields |-> registry[i].numericFields]
  /\ ret' = Return(buildAggregationBlock(aggregations, registry[i].numericFields))
  /\ UNCHANGED <<registry, seen, handlerVars, cacheVars>>

\* getRegisteredResolvers sorting for display with the in-place reverse().
GetRegisteredResolvers_reversesInPlace ==
  /\ pc = "idle"
  /\ pc' = "done"
  /\ op' = "getRegisteredResolvers"
  /\ arg' = NoArg
  /\ registry' =
       [i \in 1..Len(registry) |->
          [registry[i] EXCEPT
             !.fields = [j \in 1..Len(@) |-> @[Len(@) + 1 - j]]]]
  /\ ret' = [kind |-> "return", name |-> "", text |-> <<>>,
             list |-> getRegisteredResolvers(registry')]
  /\ UNCHANGED <<seen, handlerVars, cacheVars>>

GetRegisteredResolvers ==
  /\ pc = "idle"
  /\ pc' = "done"
  /\ op' = "getRegisteredResolvers"
  /\ arg' = NoArg
  /\ ret' = [kind |-> "return", name |-> "", text |-> <<>>,
             list |-> getRegisteredResolvers(registry)]
  /\ UNCHANGED <<registry, seen, handlerVars, cacheVars>>

Consume ==
  /\ pc = "done"
  /\ pc' = "idle"
  /\ op' = "none"
  /\ arg' = NoArg
  /\ ret' = NoResult
  /\ UNCHANGED <<registry, seen, handlerVars, cacheVars>>

Next ==
  \/ \E k \in ResolverKeys, p \in ParamBags : BuildQuery(k, p)
  \/ \E v \in LiteralInputs : ToGraphQLLiteral(v)
  \/ \E ag \in AggPool, i \in 1..Len(registry) : BuildAggregationBlock(ag, i)
  \/ GetRegisteredResolvers
  \/ Consume

Spec == Init /\ [][Next]_vars

TypeOK ==
  /\ pc \in {"idle", "done"}
  /\ op \in {"none", "buildQuery", "toGraphQLLiteral", "buildAggregationBlock",
             "getRegisteredResolvers"}
  /\ ret.kind \in {"none", "return", "throw"}

(***************************************************************************)
(* The resolver tool handlers (tools/query-*.js) and executeGraphQL        *)
(* (utils/graphql-client.js).  A handler runs without interruption up to   *)
(* its await of executeGraphQL and resumes when the request settles.       *)
(***************************************************************************)
\* config.defaultPageSize and config.maxPageSize without environment
\* overrides.
defaultPageSize == 100
maxPageSize == 1000

\* Math.min of two numbers.
MathMin(a, b) == IF a.n < b.n THEN a ELSE b

UpperCaseLetters ==
  <<"A", "B", "C", "D", "E", "F", "G", "H", "I", "J", "K", "L", "M",
    "N", "O", "P", "Q", "R", "S", "T", "U", "V", "W", "X", "Y", "Z">>
LowerCaseLetters ==
  <<"a", "b", "c", "d", "e", "f", "g", "h", "i", "j", "k", "l", "m",
    "n", "o", "p", "q", "r", "s", "t", "u", "v", "w", "x", "y", "z">>
IsLetter(c) ==
  \E i \in 1..26 : c = UpperCaseLetters[i] \/ c = LowerCaseLetters[i]

\* String.prototype.toLowerCase / toUpperCase, character by character.
toLowerCase(s) ==
  [i \in 1..Len(s) |->
     IF \E j \in 1..26 : UpperCaseLetters[j] = s[i]
     THEN LowerCaseLetters[CHOOSE j \in 1..26 : UpperCaseLetters[j] = s[i]]
     ELSE s[i]]
toUpperCase(s) ==
  [i \in 1..Len(s) |->
     IF \E j \in 1..26 : LowerCaseLetters[j] = s[i]
     THEN UpperCaseLetters[CHOOSE j \in 1..26 : LowerCaseLetters[j] = s[i]]
     ELSE s[i]]

\* String.prototype.trim for the space character.
RECURSIVE trimStart(_)
trimStart(s) == IF Len(s) > 0 /\ Head(s) = " " THEN trimStart(Tail(s)) ELSE s
RECURSIVE trimEnd(_)
trimEnd(s) ==
  IF Len(s) > 0 /\ s[Len(s)] = " " THEN trimEnd(SubSeq(s, 1, Len(s) - 1)) ELSE s
trim(s) == trimEnd(trimStart(s))

\* The export and import labels of TRADE_FLOW, one atom per character
\* (U+51FA U+53E3 and U+9032 U+53E3).
EXPORT_ZH == <<"U+51FA", "U+53E3">>
IMPORT_ZH == <<"U+9032", "U+53E3">>

\* buildFilterFromParams: the tf chosen for params.tradeFlow.
tradeFlowValue(tradeFlow) ==
  LET tfRaw == toLowerCase(tradeFlow)
  IN IF tfRaw \in {EXPORT_ZH, <<"1">>, <<"e", "x", "p", "o", "r", "t">>}
     THEN EXPORT_ZH
     ELSE IF tfRaw \in {IMPORT_ZH, <<"2">>, <<"i", "m", "p", "o", "r", "t">>}
     THEN IMPORT_ZH
     ELSE tradeFlow

\* buildFilterFromParams: the entry added for params.country.
countryEntry(country) ==
  LET val == trim(country)
      eq(v) == Obj(<<[k |-> "eq", v |-> Str(v)]>>)
  IN IF Len(val) = 2 /\ \A i \in 1..2 : IsLetter(val[i])
     THEN [k |-> "COUNTRY_ID", v |-> eq(toUpperCase(val))]
     ELSE IF Len(val) > 0 /\ \A i \in 1..Len(val) : IsLetter(val[i]) \/ val[i] = "_"
     THEN [k |-> "AREA_ID", v |-> eq(toUpperCase(val))]
     ELSE [k |-> "or",
           v |-> Arr(<<Obj(<<[k |-> "COUNTRY_COMM_ZH", v |-> eq(val)]>>),
                       Obj(<<[k |-> "AREA_NM", v |-> eq(val)]>>)>>)]

buildFilterFromParams(params) ==
  LET entries ==
        (IF Truthy(params.year)
         THEN <<[k |-> "YEAR", v |-> Obj(<<[k |-> "eq", v |-> params.year]>>)]>>
         ELSE <<>>)
        \o (IF Truthy(params.tradeFlow)
            THEN <<[k |-> "TRADE_FLOW",
                    v |-> Obj(<<[k |-> "eq",
                                 v |-> Str(tradeFlowValue(params.tradeFlow.s))]>>)]>>
            ELSE <<>>)
        \o (IF Truthy(params.industryKeyword)
            THEN <<[k |-> "INDUSTRY",
                    v |-> Obj(<<[k |-> "contains", v |-> params.industryKeyword]>>)]>>
            ELSE <<>>)
        \o (IF Truthy(params.country)
            THEN <<countryEntry(params.country.s)>>
            ELSE <<>>)
  IN IF Len(entries) > 0 THEN Obj(entries) ELSE UNDEFINED

\* execute of query_trade_monthly_by_group: normalizedParams.
normalizedParams(params) ==
  [first |-> MathMin(IF params.first.t \in {"undefined", "null"}
                     THEN Num(50) ELSE params.first,
                     Num(maxPageSize)),
   after |-> UNDEFINED,
   filter |-> buildFilterFromParams(params),
   orderBy |-> IF Truthy(params.order)
               THEN Obj(<<[k |-> "PERIOD_MONTH", v |-> params.order]>>)
               ELSE UNDEFINED,
   fields |-> UNDEFINED, groupBy |-> UNDEFINED, aggregations |-> UNDEFINED]

\* { ...params, first } of the handlers that pass the caller's bag on.
spreadParams(params) ==
  [params EXCEPT
     !.first = MathMin(IF Truthy(params.first) THEN params.first
                       ELSE Num(defaultPageSize),
                       Num(maxPageSize))]

\* The handlers: tool name, the resolver key written in the handler, the
\* error label of its catch block, and how it derives buildQuery's bag
\* (query_trade_monthly_by_group exists in both forms).
HANDLERS == <<
  [name |-> "query_trade_monthly_by_code",
   resolver |-> "trade_monthly_by_code_country",
   label |-> "Trade monthly by code query failed",
   normalized |-> FALSE],
  [name |-> "query_trade_monthly_by_group",
   resolver |-> "trade_monthly_by_group_country",
   label |-> "Trade monthly by group query failed",
   normalized |-> TRUE],
  [name |-> "query_trade_transactions",
   resolver |-> "TXN_MOF_NON_PROTECT_MT",
   label |-> "Trade transaction query failed",
   normalized |-> FALSE],
  [name |-> "query_hscode_reference",
   resolver |-> "UNION_REF_HSCODE",
   label |-> "HS Code reference query failed",
   normalized |-> FALSE],
  [name |-> "query_country_area_reference",
   resolver |-> "UNION_REF_COUNTRY_AREA",
   label |-> "Country/area reference query failed",
   normalized |-> FALSE],
  [name |-> "query_trade_monthly_by_group",
   resolver |-> "trade_monthly_by_group_country",
   label |-> "Trade monthly by group query failed",
   normalized |-> FALSE] >>

\* What fetch can settle with: a rejection, or a response with a status and
\* a body.
Response(kind, ok, status, text, errors, data) ==
  [kind |-> kind, ok |-> ok, status |-> status, text |-> text,
   errors |-> errors, data |-> data]

\* executeGraphQL without the test of result.errors.
executeGraphQL_ignoresErrors(response) ==
  IF response.kind = "rejected"
  THEN [kind |-> "throw", name |-> "TypeError", text |-> <<"fetch failed">>,
        result |-> UNDEFINED]
  ELSE IF ~response.ok
  THEN [kind |-> "throw", name |-> "Error",
        text |-> <<"GraphQL HTTP Error ">> \o NumberToString(response.status)
                 \o <<": ", response.text>>,
        result |-> UNDEFINED]
  ELSE IF response.kind = "invalid-json"
  THEN \* response.json() rejects
       [kind |-> "throw", name |-> "SyntaxError",
        text |-> <<"Unexpected token in JSON">>, result |-> UNDEFINED]
  ELSE [kind |-> "return", name |-> "", text |-> <<>>,
        result |-> [errors |-> response.errors, data |-> response.data]]

\* executeGraphQL from the settling of fetch on: the parsed body, or the
\* error it throws.
executeGraphQL(response) ==
  IF response.kind = "rejected"
  THEN [kind |-> "throw", name |-> "TypeError", text |-> <<"fetch failed">>,
        result |-> UNDEFINED]
  ELSE IF ~response.ok
  THEN [kind |-> "throw", name |-> "Error",
        text |-> <<"GraphQL HTTP Error ">> \o NumberToString(response.status)
                 \o <<": ", response.text>>,
        result |-> UNDEFINED]
  ELSE IF response.kind = "invalid-json"
  THEN \* response.json() rejects
       [kind |-> "throw", name |-> "SyntaxError",
        text |-> <<"Unexpected token in JSON">>, result |-> UNDEFINED]
  ELSE IF Truthy(response.errors) /\ Len(response.errors.l) > 0
  THEN [kind |-> "throw", name |-> "Error",
        text |-> <<"GraphQL Error: ">>
                 \o Join(Atoms(response.errors.l), <<"; ">>),
        result |-> UNDEFINED]
  ELSE [kind |-> "return", name |-> "", text |-> <<>>,
        result |-> [errors |-> response.errors, data |-> response.data]]

\* The objects a handler resolves with; json is the value handed to
\* JSON.stringify for the text content.
errorResult(label, message) ==
  [kind |-> "resolved", isError |-> TRUE,
   json |-> [error |-> label, details |-> message, result |-> UNDEFINED]]
okResult(result) ==
  [kind |-> "resolved", isError |-> FALSE,
   json |-> [error |-> "", details |-> <<>>, result |-> result]]

\* Inputs of the handlers, as a direct caller can pass them: fields may be
\* a string instead of a list of names.
HandlerFirstPool == {UNDEFINED, Num(0), Num(10), Num(5000), Num(99999)}
HandlerBags ==
  {Bag(f, UNDEFINED, fl, UNDEFINED, s, g, UNDEFINED) :
     f \in HandlerFirstPool, fl \in {UNDEFINED, YearFilter},
     s \in {UNDEFINED, List(<<"YEAR">>), Str(<<"Y", "E", "A", "R">>), Str(<<>>)},
     g \in {UNDEFINED, List(<<"YEAR">>)}}
GroupToolParams ==
  [year : {UNDEFINED, Num(2024)},
   tradeFlow : {UNDEFINED, Str(<<"E", "x", "p", "o", "r", "t">>), Str(IMPORT_ZH)},
   industryKeyword : {UNDEFINED, Str(<<"U+8ECA">>)},
   country : {UNDEFINED, Str(<<" ", "u", "s">>), Str(<<"E", "U", "_", "N">>),
              Str(<<"U+7F8E", "U+570B">>)},
   order : {UNDEFINED, Str(DESC)},
   first : HandlerFirstPool]
HandlerParams(h) == IF HANDLERS[h].normalized THEN GroupToolParams ELSE HandlerBags
Responses ==
  {Response("rejected", FALSE, 0, "", UNDEFINED, UNDEFINED),
   Response("response", FALSE, 500, "Internal Server Error", UNDEFINED, UNDEFINED),
   Response("response", TRUE, 200, "", UNDEFINED, Str(<<"r">>)),
   Response("response", TRUE, 200, "", List(<<>>), Str(<<"r">>)),
   Response("response", TRUE, 200, "", List(<<"bad field", "timeout">>), NULL),
   Response("response", TRUE, 200, "", List(<<"partial">>), Str(<<"r">>)),
   Response("response", TRUE, 200, "", NULL, Str(<<"r">>)),
   Response("response", FALSE, 401, "Access denied", List(<<"denied">>), NULL),
   Response("invalid-json", TRUE, 200, "<html>", UNDEFINED, UNDEFINED)}

\* A handler that swallows buildQuery's error and goes on to
\* executeGraphQL with the query it does not have.
HandlerCall_sendsWhenBuildFails(h, params) ==
  LET tool == HANDLERS[h]
      passed == IF tool.normalized THEN normalizedParams(params)
                ELSE spreadParams(params)
      built == buildQuery(registry, tool.resolver, passed)
  IN /\ hpc = "idle"
     /\ hcall' = [tool |-> tool.name, h |-> h, params |-> params, passed |-> passed]
     /\ hbuilt' = built
     /\ hsent' = <<[query |-> built.text]>>
     /\ hresult' = NoHandlerResult
     /\ hpc' = "awaiting"
     /\ UNCHANGED <<registry, pc, op, arg, ret, seen, cacheVars>>

\* handler(params) up to its first await: the page size, buildQuery inside
\* the try block, then either the catch block or the call of
\* executeGraphQL.
HandlerCall(h, params) ==
  LET tool == HANDLERS[h]
      passed == IF tool.normalized THEN normalizedParams(params)
                ELSE spreadParams(params)
      built == buildQuery(registry, tool.resolver, passed)
  IN /\ hpc = "idle"
     /\ hcall' = [tool |-> tool.name, h |-> h, params |-> params, passed |-> passed]
     /\ hbuilt' = built
     /\ IF built.kind = "throw"
        THEN /\ hsent' = <<>>
             /\ hresult' = errorResult(tool.label, built.text)
             /\ hpc' = "returned"
        ELSE /\ hsent' = <<[query |-> built.text]>>
             /\ hresult' = NoHandlerResult
             /\ hpc' = "awaiting"
     /\ UNCHANGED <<registry, pc, op, arg, ret, seen, cacheVars>>

\* The request settles and the handler resumes: the result of
\* executeGraphQL becomes the text content, its error the catch block's.
FetchSettles(response) ==
  LET r == executeGraphQL(response)
  IN /\ hpc = "awaiting"
     /\ hpc' = "returned"
     /\ hresult' = IF r.kind = "throw"
                   THEN errorResult(HANDLERS[hcall.h].label, r.text)
                   ELSE okResult(r.result)
     /\ UNCHANGED <<hcall, hbuilt, hsent>>
     /\ UNCHANGED <<registry, pc, op, arg, ret, seen, cacheVars>>

\* The caller takes the handler's result.
HandlerReturn ==
  /\ hpc = "returned"
  /\ hpc' = "idle"
  /\ hcall' = NoCall
  /\ hbuilt' = NoResult
  /\ hsent' = <<>>
  /\ hresult' = NoHandlerResult
  /\ UNCHANGED <<registry, pc, op, arg, ret, seen, cacheVars>>

\* A caller of executeGraphQL itself, from the settling of its fetch.
ExecuteGraphQL(response) ==
  /\ pc = "idle"
  /\ pc' = "done"
  /\ op' = "executeGraphQL"
  /\ arg' = [response |-> response]
  /\ ret' = executeGraphQL(response)
  /\ UNCHANGED <<registry, seen, handlerVars, cacheVars>>

NextHandler ==
  \/ \E h \in 1..Len(HANDLERS) : \E p \in HandlerParams(h) : HandlerCall(h, p)
  \/ \E r \in Responses : FetchSettles(r)
  \/ HandlerReturn
  \/ \E r \in Responses : ExecuteGraphQL(r)
  \/ Consume

SpecHandler == Init /\ [][NextHandler]_vars

(***************************************************************************)
(* The schema cache (utils/schema-cache.js) as its callers see it when     *)
(* each call is awaited before the next one starts, and a caller that      *)
(* keeps the outcome of one buildQuery call to compare later ones with.    *)
(***************************************************************************)
\* 24 * 60 * 60 * 1000
DEFAULT_TTL_MS == 86400000

\* The number of readings of the clock the model follows, half a default
\* TTL apart.
MaxClock == 3
TickMs == DEFAULT_TTL_MS \div 2

Schema(id) == [t |-> "schema", id |-> id]
SchemaPool == {Schema("A"), Schema("B")}
TtlPool == {UNDEFINED, Num(0), Num(2)}

CacheReturn(schema) ==
  [kind |-> "return", name |-> "", text |-> <<>>, schema |-> schema]

\* const ttlMs = options.ttlMs || DEFAULT_TTL_MS
EffectiveTtl(ttlOption) ==
  IF Truthy(ttlOption) THEN ttlOption.n ELSE DEFAULT_TTL_MS

\* The freshness test with <= for <.
IsFresh_atTtl(timestamp, ttlMs) == now - timestamp <= ttlMs
\* Date.now() - timestamp < ttlMs
IsFresh(timestamp, ttlMs) == now - timestamp < ttlMs

\* if (memoryCache && memoryCacheTimestamp)
InMemory == Truthy(memoryCache) /\ Truthy(memoryCacheTimestamp)

\* The file test of getCachedSchema on the content raw, read from the
\* cache file: readable says whether readFile and JSON.parse succeed.
FileValid(raw, readable, ttlMs) ==
  /\ raw.exists
  /\ readable
  /\ raw.cachedAt # 0
  /\ IsFresh(raw.cachedAt, ttlMs)

\* getCachedSchema({ ttlMs }) run from call to resolution with no other
\* cache call in between: the schema returned and the memory cache left.
CachedLookup(ttlOption, readable) ==
  LET ttlMs == EffectiveTtl(ttlOption)
  IN IF InMemory /\ IsFresh(memoryCacheTimestamp.n, ttlMs)
     THEN [schema |-> memoryCache, memoryCache |-> memoryCache,
           memoryCacheTimestamp |-> memoryCacheTimestamp]
     ELSE IF FileValid(cacheFile, readable, ttlMs)
     THEN [schema |-> cacheFile.schema, memoryCache |-> cacheFile.schema,
           memoryCacheTimestamp |-> Num(cacheFile.cachedAt)]
     ELSE [schema |-> NULL,
           memoryCache |-> IF InMemory THEN NULL ELSE memoryCache,
           memoryCacheTimestamp |->
             IF InMemory THEN NULL ELSE memoryCacheTimestamp]

\* The cache file after writeFile of { _cachedAt, schema }: writable says
\* whether mkdir and writeFile succeed; a failure is caught and logged.
WrittenFile(schema, cachedAt, writable) ==
  IF writable
  THEN [exists |-> TRUE, cachedAt |-> cachedAt, schema |-> schema]
  ELSE cacheFile

GetCachedSchema(ttlOption, readable) ==
  LET found == CachedLookup(ttlOption, readable)
  IN /\ pc = "idle"
     /\ pc' = "done"
     /\ op' = "getCachedSchema"
     /\ arg' = [ttlMs |-> ttlOption, readable |-> readable]
     /\ ret' = CacheReturn(found.schema)
     /\ memoryCache' = found.memoryCache
     /\ memoryCacheTimestamp' = found.memoryCacheTimestamp
     /\ UNCHANGED <<registry, seen, handlerVars, cacheFile, now, getCall,
                    setCall, cleared>>

SetCachedSchema(schema, writable) ==
  /\ pc = "idle"
  /\ pc' = "done"
  /\ op' = "setCachedSchema"
  /\ arg' = [schema |-> schema, writable |-> writable]
  /\ ret' = CacheReturn(UNDEFINED)
  /\ memoryCache' = schema
  /\ memoryCacheTimestamp' = Num(now)
  /\ cacheFile' = WrittenFile(schema, now, writable)
  /\ cleared' = FALSE
  /\ UNCHANGED <<registry, seen, handlerVars, now, getCall, setCall>>

\* clearCache with the timestamp left in place.
ClearCache_keepsTimestamp ==
  /\ pc = "idle"
  /\ pc' = "done"
  /\ op' = "clearCache"
  /\ arg' = NoArg
  /\ ret' = CacheReturn(UNDEFINED)
  /\ memoryCache' = NULL
  /\ cleared' = TRUE
  /\ UNCHANGED <<registry, seen, handlerVars, memoryCacheTimestamp,
                 cacheFile, now, getCall, setCall>>

ClearCache ==
  /\ pc = "idle"
  /\ pc' = "done"
  /\ op' = "clearCache"
  /\ arg' = NoArg
  /\ ret' = CacheReturn(UNDEFINED)
  /\ memoryCache' = NULL
  /\ memoryCacheTimestamp' = NULL
  /\ cleared' = TRUE
  /\ UNCHANGED <<registry, seen, handlerVars, cacheFile, now, getCall,
                 setCall>>

\* getCacheStatus(): whether a schema is in memory and how old it is.
GetCacheStatus ==
  /\ pc = "idle"
  /\ pc' = "done"
  /\ op' = "getCacheStatus"
  /\ arg' = NoArg
  /\ ret' = [kind |-> "return", name |-> "", text |-> <<>>,
             hasMemoryCache |-> Truthy(memoryCache),
             memoryCacheAge |-> IF Truthy(memoryCacheTimestamp)
                                THEN Num(now - memoryCacheTimestamp.n)
                                ELSE NULL]
  /\ UNCHANGED <<registry, seen, handlerVars, cacheVars>>

\* Date.now() moves on.
Tick ==
  /\ now < 1 + (MaxClock - 1) * TickMs
  /\ now' = now + TickMs
  /\ UNCHANGED <<registry, pc, op, arg, ret, seen, handlerVars,
                 memoryCache, memoryCacheTimestamp, cacheFile, getCall,
                 setCall, cleared>>

\* The caller keeps the call that has just returned, with the cache as it
\* was then.
Remember ==
  /\ pc = "done"
  /\ op = "buildQuery"
  /\ ~seen.set
  /\ seen' = [set |-> TRUE, resolverKey |-> arg.resolverKey,
              params |-> arg.params, ret |-> ret,
              memoryCache |-> memoryCache, now |-> now]
  /\ UNCHANGED <<registry, pc, op, arg, ret, handlerVars, cacheVars>>

HistoryKeys ==
  {"UNION_REF_COUNTRY_AREA", "trade_monthly_by_code_country", "unknown-key"}
HistoryBags ==
  {Bag(UNDEFINED, UNDEFINED, UNDEFINED, UNDEFINED, UNDEFINED, UNDEFINED, UNDEFINED),
   Bag(Num(10), UNDEFINED, YearFilter, UNDEFINED, List(<<"YEAR">>), UNDEFINED,
       UNDEFINED),
   Bag(UNDEFINED, UNDEFINED, UNDEFINED, UNDEFINED, UNDEFINED, List(<<"YEAR">>),
       List(<<[field |-> Id("YEAR"), function |-> Id("avg")]>>))}

NextHistory ==
  \/ \E k \in HistoryKeys, p \in HistoryBags : BuildQuery(k, p)
  \/ GetRegisteredResolvers
  \/ Remember
  \/ \E ttl \in TtlPool, readable \in BOOLEAN : GetCachedSchema(ttl, readable)
  \/ \E s \in SchemaPool, writable \in BOOLEAN : SetCachedSchema(s, writable)
  \/ ClearCache
  \/ Tick
  \/ Consume

SpecHistory == Init /\ [][NextHistory]_vars

(***************************************************************************)
(* The schema cache used by one caller that awaits each call before the    *)
(* next.                                                                   *)
(***************************************************************************)
NextCache ==
  \/ \E ttl \in TtlPool, readable \in BOOLEAN : GetCachedSchema(ttl, readable)
  \/ \E s \in SchemaPool, writable \in BOOLEAN : SetCachedSchema(s, writable)
  \/ ClearCache
  \/ GetCacheStatus
  \/ Tick
  \/ Consume

SpecCache == Init /\ [][NextCache]_vars

(***************************************************************************)
(* The schema cache step by step: getCachedSchema and setCachedSchema are  *)
(* async functions, each runs without interruption between its awaits,     *)
(* and a call of one may start while a call of the other is suspended.     *)
(***************************************************************************)
\* getCachedSchema from its call to the await of readFile, or to its
\* return when the memory cache answers or there is no file.
GetStart(ttlOption) ==
  LET ttlMs == EffectiveTtl(ttlOption)
  IN /\ getCall.pc = "idle"
     /\ IF InMemory /\ IsFresh(memoryCacheTimestamp.n, ttlMs)
        THEN /\ getCall' = [NoGet EXCEPT !.pc = "resolved", !.ttlMs = ttlMs,
                                         !.ret = memoryCache]
             /\ UNCHANGED <<memoryCache, memoryCacheTimestamp>>
        ELSE /\ memoryCache' = IF InMemory THEN NULL ELSE memoryCache
             /\ memoryCacheTimestamp' =
                  IF InMemory THEN NULL ELSE memoryCacheTimestamp
             /\ getCall' = [NoGet EXCEPT
                              !.pc = IF cacheFile.exists THEN "reading"
                                     ELSE "resolved",
                              !.ttlMs = ttlMs]
     /\ UNCHANGED <<registry, pc, op, arg, ret, seen, handlerVars, cacheFile,
                    now, setCall, cleared>>

\* readFile reads what the file holds, or fails.
GetRead(readable) ==
  /\ getCall.pc = "reading"
  /\ getCall' = [getCall EXCEPT !.pc = "read", !.raw = cacheFile,
                                !.readable = readable]
  /\ UNCHANGED <<registry, pc, op, arg, ret, seen, handlerVars, memoryCache,
                 memoryCacheTimestamp, cacheFile, now, setCall, cleared>>

\* getCachedSchema resumes after the await: JSON.parse, the test of
\* _cachedAt against Date.now(), and the load into the memory cache.
GetResume ==
  /\ getCall.pc = "read"
  /\ IF FileValid(getCall.raw, getCall.readable, getCall.ttlMs)
     THEN /\ memoryCache' = getCall.raw.schema
          /\ memoryCacheTimestamp' = Num(getCall.raw.cachedAt)
          /\ getCall' = [getCall EXCEPT !.pc = "resolved",
                                        !.ret = getCall.raw.schema]
     ELSE /\ getCall' = [getCall EXCEPT !.pc = "resolved", !.ret = NULL]
          /\ UNCHANGED <<memoryCache, memoryCacheTimestamp>>
  /\ UNCHANGED <<registry, pc, op, arg, ret, seen, handlerVars, cacheFile,
                 now, setCall, cleared>>

\* The caller takes the schema or null the call resolved with.
GetReturn ==
  /\ getCall.pc = "resolved"
  /\ getCall' = NoGet
  /\ UNCHANGED <<registry, pc, op, arg, ret, seen, handlerVars, memoryCache,
                 memoryCacheTimestamp, cacheFile, now, setCall, cleared>>

\* setCachedSchema from its call to the await of mkdir or writeFile.
SetStart(schema) ==
  /\ setCall.pc = "idle"
  /\ setCall' = [NoSet EXCEPT !.pc = "writing", !.schema = schema, !.at = now]
  /\ memoryCache' = schema
  /\ memoryCacheTimestamp' = Num(now)
  /\ cleared' = FALSE
  /\ UNCHANGED <<registry, pc, op, arg, ret, seen, handlerVars, cacheFile,
                 now, getCall>>

\* writeFile with a timestamp taken when the file is written.
SetWrite_stampsAtWrite(writable) ==
  /\ setCall.pc = "writing"
  /\ setCall' = [setCall EXCEPT !.pc = "resolved", !.wrote = writable]
  /\ cacheFile' = WrittenFile(setCall.schema, now, writable)
  /\ UNCHANGED <<registry, pc, op, arg, ret, seen, handlerVars, memoryCache,
                 memoryCacheTimestamp, now, getCall, cleared>>

\* mkdir and writeFile settle and setCachedSchema resolves, after the
\* catch block when one of them failed.
SetWrite(writable) ==
  /\ setCall.pc = "writing"
  /\ setCall' = [setCall EXCEPT !.pc = "resolved", !.wrote = writable]
  /\ cacheFile' = WrittenFile(setCall.schema, setCall.at, writable)
  /\ UNCHANGED <<registry, pc, op, arg, ret, seen, handlerVars, memoryCache,
                 memoryCacheTimestamp, now, getCall, cleared>>

SetReturn ==
  /\ setCall.pc = "resolved"
  /\ setCall' = NoSet
  /\ UNCHANGED <<registry, pc, op, arg, ret, seen, handlerVars, memoryCache,
                 memoryCacheTimestamp, cacheFile, now, getCall, cleared>>

NextCacheAsync ==
  \/ \E ttl \in TtlPool : GetStart(ttl)
  \/ \E readable \in BOOLEAN : GetRead(readable)
  \/ GetResume
  \/ GetReturn
  \/ \E s \in SchemaPool : SetStart(s)
  \/ \E writable \in BOOLEAN : SetWrite(writable)
  \/ SetReturn
  \/ ClearCache
  \/ GetCacheStatus
  \/ Tick
  \/ Consume

SpecCacheAsync == Init /\ [][NextCacheAsync]_vars

\* getCachedSchema and setCachedSchema calls alone, interleaved.
NextCacheRace ==
  \/ \E ttl \in TtlPool : GetStart(ttl)
  \/ \E readable \in BOOLEAN : GetRead(readable)
  \/ GetResume
  \/ GetReturn
  \/ \E s \in SchemaPool : SetStart(s)
  \/ \E writable \in BOOLEAN : SetWrite(writable)
  \/ SetReturn
  \/ Tick

SpecCacheRace == Init /\ [][NextCacheRace]_vars

(***************************************************************************)
(* The introspect-schema tool handler (tools/introspect-schema.js): one    *)
(* call at a time, its cache calls awaited with no other cache call in     *)
(* between, while the clock runs.                                          *)
(***************************************************************************)
\* config.schemaCacheTtlMs without an environment override.
schemaCacheTtlMs == 24 * 60 * 60 * 1000

INTROSPECTION_QUERY == <<"query IntrospectionQuery { __schema { ... } }">>

ForceRefreshPool == {UNDEFINED, Bool(FALSE), Bool(TRUE)}
NoResponse == [kind |-> "none"]

\* The cache as the handler finds it when called.
CacheSnapshot ==
  [memoryCache |-> memoryCache, memoryCacheTimestamp |-> memoryCacheTimestamp,
   cacheFile |-> cacheFile, now |-> now]

\* The cache consulted whatever forceRefresh says.
UseCache_always(forceRefresh) == TRUE
\* if (!forceRefresh)
UseCache(forceRefresh) == ~Truthy(forceRefresh)

\* The text content of a successful call: { _source, _cacheAge, ...schema }.
introspectResult(source, cacheAge, schema) ==
  [kind |-> "resolved", isError |-> FALSE,
   json |-> [error |-> "", details |-> <<>>, _source |-> source,
             _cacheAge |-> cacheAge, result |-> schema]]

\* handler({ forceRefresh }) up to its await of executeGraphQL, or to its
\* return when the cache answers.
IntrospectCall(forceRefresh, readable) ==
  LET found == CachedLookup(Num(schemaCacheTtlMs), readable)
  IN /\ hpc = "idle"
     /\ hcall' = [tool |-> "introspect-schema", forceRefresh |-> forceRefresh,
                  readable |-> readable, before |-> CacheSnapshot,
                  response |-> NoResponse]
     /\ hbuilt' = NoResult
     /\ IF UseCache(forceRefresh)
        THEN /\ memoryCache' = found.memoryCache
             /\ memoryCacheTimestamp' = found.memoryCacheTimestamp
             /\ IF Truthy(found.schema)
                THEN /\ hsent' = <<>>
                     /\ hresult' =
                          introspectResult("cache",
                            Num(now - found.memoryCacheTimestamp.n),
                            found.schema)
                     /\ hpc' = "returned"
                ELSE /\ hsent' = <<[query |-> INTROSPECTION_QUERY]>>
                     /\ hresult' = NoHandlerResult
                     /\ hpc' = "awaiting"
        ELSE /\ UNCHANGED <<memoryCache, memoryCacheTimestamp>>
             /\ hsent' = <<[query |-> INTROSPECTION_QUERY]>>
             /\ hresult' = NoHandlerResult
             /\ hpc' = "awaiting"
     /\ UNCHANGED <<registry, pc, op, arg, ret, seen, cacheFile, now, getCall,
                    setCall, cleared>>

\* The cache after executeGraphQL threw, were the catch block to drop it.
CacheAfterFetch_clearedOnFailure(r, writable) ==
  IF r.kind = "throw"
  THEN [memoryCache |-> NULL, memoryCacheTimestamp |-> NULL,
        cacheFile |-> cacheFile]
  ELSE [memoryCache |-> Schema(r.result), memoryCacheTimestamp |-> Num(now),
        cacheFile |-> WrittenFile(Schema(r.result), now, writable)]
\* The cache after executeGraphQL settled with r: setCachedSchema(result)
\* is reached only when it returned.
CacheAfterFetch(r, writable) ==
  IF r.kind = "throw"
  THEN [memoryCache |-> memoryCache,
        memoryCacheTimestamp |-> memoryCacheTimestamp,
        cacheFile |-> cacheFile]
  ELSE [memoryCache |-> Schema(r.result), memoryCacheTimestamp |-> Num(now),
        cacheFile |-> WrittenFile(Schema(r.result), now, writable)]

\* The request settles and the handler resumes: the result is cached and
\* returned, an error goes to the catch block.
IntrospectFetchSettles(response, writable) ==
  LET r == executeGraphQL(response)
      after == CacheAfterFetch(r, writable)
  IN /\ hpc = "awaiting"
     /\ hcall.tool = "introspect-schema"
     /\ hpc' = "returned"
     /\ hcall' = [hcall EXCEPT !.response = response]
     /\ hresult' = IF r.kind = "throw"
                   THEN errorResult("Schema introspection failed", r.text)
                   ELSE introspectResult("api", UNDEFINED, Schema(r.result))
     /\ memoryCache' = after.memoryCache
     /\ memoryCacheTimestamp' = after.memoryCacheTimestamp
     /\ cacheFile' = after.cacheFile
     /\ cleared' = (r.kind = "throw" /\ cleared)
     /\ UNCHANGED <<registry, pc, op, arg, ret, seen, hbuilt, hsent, now,
                    getCall, setCall>>

NextIntrospect ==
  \/ \E f \in ForceRefreshPool, readable \in BOOLEAN : IntrospectCall(f, readable)
  \/ \E r \in Responses, writable \in BOOLEAN : IntrospectFetchSettles(r, writable)
  \/ HandlerReturn
  \/ hpc = "idle" /\ ClearCache
  \/ Consume
  \/ Tick

SpecIntrospect == Init /\ [][NextIntrospect]_vars

(***************************************************************************)
(* Reading a produced query text back.                                     *)
(***************************************************************************)
IndexFrom(text, atom, from) ==
  IF \E i \in from..Len(text) : text[i] = atom
  THEN CHOOSE i \in from..Len(text) :
         text[i] = atom /\ \A j \in from..(i - 1) : text[j] # atom
  ELSE 0

IndexOf(text, atom) == IndexFrom(text, atom, 1)

\* The atoms strictly between the first open and the next close after it.
Between(text, open, close) ==
  LET i == IndexOf(text, open)
      j == IF i = 0 THEN 0 ELSE IndexFrom(text, close, i + 1)
  IN IF i = 0 \/ j = 0 THEN <<"<unparsable>">> ELSE SubSeq(text, i + 1, j - 1)

Without(seq, sep) == SelectSeq(seq, LAMBDA a : a # sep)

ItemsOf(text) == Without(Between(text, "items {\n        ", "\n      }"), NL10)

ArgsRegion(text) == SubSeq(text, 3, IndexOf(text, " {\n      ") - 1)

ArgLabelSet == {"first: ", "after: ", "filter: ", "orderBy: "}
ArgLabels(text) == SelectSeq(ArgsRegion(text), LAMBDA a : a \in ArgLabelSet)

GroupByArgOf(text) ==
  Without(Between(text, "groupBy(fields: [", "]) {\n        "), ", ")
GroupBySelectionOf(text) ==
  Without(Between(text, "fields {\n          ", "\n        }"), NL10)

OwnKeys == {RESOLVER_REGISTRY[i].key : i \in 1..Len(RESOLVER_REGISTRY)}
DescriptorOf(k) ==
  RESOLVER_REGISTRY[CHOOSE i \in 1..Len(RESOLVER_REGISTRY) :
                      RESOLVER_REGISTRY[i].key = k]
KnownField(k, f) ==
  \E i \in 1..Len(DescriptorOf(k).fields) : DescriptorOf(k).fields[i] = f

EmptyBag ==
  Bag(UNDEFINED, UNDEFINED, UNDEFINED, UNDEFINED, UNDEFINED, UNDEFINED, UNDEFINED)

Built == pc = "done" /\ op = "buildQuery"
BuiltKnown == Built /\ arg.resolverKey \in OwnKeys

IsDefined(v) == v.t \notin {"undefined", "null"}
NonEmptyObject(v) == v.t = "object" /\ Len(v.o) > 0
NonEmptyList(v) == v.t = "list" /\ Len(v.l) > 0

(***************************************************************************)
(* C1: for every registry key, buildQuery(key, {}) returns a query that    *)
(* contains the descriptor's queryName and whose items block lists exactly *)
(* the descriptor's fields, in the registry's declared order.              *)
(***************************************************************************)
C1_DefaultQueryListsAllFields ==
  (BuiltKnown /\ arg.params = EmptyBag) =>
    /\ ret.kind = "return"
    /\ ret.text[2] = DescriptorOf(arg.resolverKey).queryName
    /\ ItemsOf(ret.text) = DescriptorOf(arg.resolverKey).fields
    /\ Between(ret.text, "items {\n        ", "\n      }")
         = Join(Atoms(DescriptorOf(arg.resolverKey).fields), <<NL10>>)

C1_Witness ==
  /\ Built
  /\ arg.resolverKey = "UNION_REF_COUNTRY_AREA"
  /\ arg.params = EmptyBag
  /\ ret.kind = "return"
  /\ ret.text[2] = "uNION_REF_COUNTRY_AREAs"
  /\ ItemsOf(ret.text) = <<"ISO3", "COUNTRY_COMM_ZH", "COUNTRY_COMM_EN",
                           "AREA_ID", "AREA_NM", "ROW", "AREA_sort">>

(***************************************************************************)
(* C2: for every key that is not a registry key, buildQuery throws the     *)
(* UnknownResolver error whose message names the key and lists all known   *)
(* keys, and produces no query.                                            *)
(***************************************************************************)
C2_UnknownKeyRaisesUnknownResolver ==
  (Built /\ arg.resolverKey \notin OwnKeys) =>
    /\ ret.kind = "throw"
    /\ ret.name = "Error"
    /\ ret.text = <<"Unknown resolver: ", arg.resolverKey,
                    ". Available resolvers: ",
                    "UNION_REF_HSCODE", ", ",
                    "trade_monthly_by_code_country", ", ",
                    "trade_monthly_by_group_country", ", ",
                    "UNION_REF_COUNTRY_AREA", ", ",
                    "TXN_MOF_NON_PROTECT_MT">>

(***************************************************************************)
(* C3: with a non-empty params.fields the items selection is params.fields *)
(* without the names unknown to the descriptor, in the caller's order, and *)
(* no error is raised; with params.fields absent or empty it is the        *)
(* descriptor's full field list in registry order.                         *)
(***************************************************************************)
C3_SelectionIsFilteredFields ==
  BuiltKnown =>
    /\ ret.kind = "return"
    /\ ItemsOf(ret.text) =
         IF NonEmptyList(arg.params.fields)
         THEN SelectSeq(arg.params.fields.l,
                        LAMBDA f : KnownField(arg.resolverKey, f))
         ELSE DescriptorOf(arg.resolverKey).fields

C3_Witness ==
  /\ Built
  /\ arg.resolverKey = "UNION_REF_COUNTRY_AREA"
  /\ arg.params.fields = List(<<"UNKNOWN_FIELD", "ISO3">>)
  /\ ret.kind = "return"
  /\ ItemsOf(ret.text) = <<"ISO3">>

(***************************************************************************)
(* C4: the argument list holds, in the order first, after, filter,         *)
(* orderBy, exactly: first and after when they have a value, filter and    *)
(* orderBy when they are non-empty objects; an empty filter or orderBy is  *)
(* treated like an absent one, and with no qualifying entry there is no    *)
(* parenthesised list at all.                                              *)
(***************************************************************************)
ExpectedArgEntries(params) ==
  (IF IsDefined(params.first)
   THEN << <<"first: ">> \o toGraphQLLiteral(params.first) >> ELSE <<>>)
  \o (IF IsDefined(params.after)
      THEN << <<"after: ">> \o toGraphQLLiteral(params.after) >> ELSE <<>>)
  \o (IF NonEmptyObject(params.filter)
      THEN << <<"filter: ">> \o toGraphQLLiteral(params.filter) >> ELSE <<>>)
  \o (IF NonEmptyObject(params.orderBy)
      THEN << <<"orderBy: ">> \o toGraphQLLiteral(params.orderBy) >> ELSE <<>>)

ExpectedArgLabels(params) ==
  (IF IsDefined(params.first) THEN <<"first: ">> ELSE <<>>)
  \o (IF IsDefined(params.after) THEN <<"after: ">> ELSE <<>>)
  \o (IF NonEmptyObject(params.filter) THEN <<"filter: ">> ELSE <<>>)
  \o (IF NonEmptyObject(params.orderBy) THEN <<"orderBy: ">> ELSE <<>>)

C4_ArgumentListEntries ==
  (BuiltKnown /\ ret.kind = "return") =>
    /\ ArgLabels(ret.text) = ExpectedArgLabels(arg.params)
    /\ ArgsRegion(ret.text) =
         IF ExpectedArgLabels(arg.params) = <<>> THEN <<>>
         ELSE <<"(">> \o Join(ExpectedArgEntries(arg.params), <<", ">>) \o <<")">>
    /\ ret.text[3] = "(" <=> ExpectedArgLabels(arg.params) # <<>>

C4_Witness ==
  /\ Built
  /\ arg.resolverKey = "trade_monthly_by_code_country"
  /\ arg.params.first = Num(10)
  /\ arg.params.after = UNDEFINED
  /\ arg.params.filter = YearFilter
  /\ arg.params.orderBy = Obj(<<>>)
  /\ ret.kind = "return"
  /\ ArgsRegion(ret.text) =
       <<"(", "first: ", "1", "0", ", ", "filter: ", "{ ", "YEAR", ": ",
         "{ ", "eq", ": ", "2", "0", "2", "4", " }", " }", ")">>

(***************************************************************************)
(* C5: a groupBy sub-block is emitted iff params.groupBy is a non-empty    *)
(* sequence; its fields argument and its fields selection are both         *)
(* params.groupBy without the unknown names, caller order kept; it holds   *)
(* the aggregation block and sits inside the resolver's result block;      *)
(* otherwise the query has no groupBy text.                                *)
(***************************************************************************)
C5_GroupByBlock ==
  (BuiltKnown /\ ret.kind = "return") =>
    LET text == ret.text
        g == IndexOf(text, "groupBy(fields: [")
        expected == SelectSeq(arg.params.groupBy.l,
                              LAMBDA f : KnownField(arg.resolverKey, f))
    IN IF NonEmptyList(arg.params.groupBy)
       THEN /\ g > 0
            /\ GroupByArgOf(text) = expected
            /\ GroupBySelectionOf(text) = expected
            /\ IndexFrom(text, "aggregations {\n          ", g) > g
            /\ IndexFrom(text, "\n      }", g)
                 > IndexFrom(text, "aggregations {\n          ", g)
            /\ g > IndexOf(text, "hasNextPage")
            /\ IndexOf(text, " {\n      ") < g
            /\ IndexFrom(text, "\n      }", g) = Len(text) - 2
            /\ text[Len(text) - 1] = "\n    }"
       ELSE /\ g = 0
            /\ text[Len(text) - 2] = "hasNextPage"

C5_Witness ==
  /\ Built
  /\ arg.resolverKey = "trade_monthly_by_group_country"
  /\ arg.params.groupBy = List(<<"UNKNOWN_FIELD", "AREA_NM">>)
  /\ ret.kind = "return"
  /\ GroupByArgOf(ret.text) = <<"AREA_NM">>
  /\ GroupBySelectionOf(ret.text) = <<"AREA_NM">>
  /\ IndexOf(ret.text, "aggregations {\n          ") > 0

(***************************************************************************)
(* Reading a produced literal back: a parser of the inline-literal syntax  *)
(* (null, true, false, integers, JSON-quoted strings, bare names, [a, b]   *)
(* and { key: value, ... }), independent of the serializer.                *)
(***************************************************************************)
Enum(s) == [t |-> "enum", s |-> s]

DigitSet == {Digits[i] : i \in 1..10}
DigitValue(c) == CHOOSE d \in 0..9 : Digits[d + 1] = c

NameChars ==
  {"A", "B", "C", "D", "E", "F", "G", "H", "I", "J", "K", "L", "M", "N", "O",
   "P", "Q", "R", "S", "T", "U", "V", "W", "X", "Y", "Z", "_",
   "a", "b", "c", "d", "e", "f", "g", "h", "i", "j", "k", "l", "m", "n", "o",
   "p", "q", "r", "s", "t", "u", "v", "w", "x", "y", "z"}

ParseFail == [ok |-> FALSE, v |-> NULL, n |-> 0]
Parsed(v, n) == [ok |-> TRUE, v |-> v, n |-> n]

\* The characters of a quoted string, from position i to the closing quote.
RECURSIVE ParseChars(_, _, _)
ParseChars(text, i, acc) ==
  IF i > Len(text) THEN ParseFail
  ELSE IF text[i] = QUOTE THEN Parsed(Str(acc), i + 1)
  ELSE IF text[i] = BACKSLASH
       THEN IF i + 1 > Len(text) THEN ParseFail
            ELSE IF text[i + 1] \in {QUOTE, BACKSLASH}
                 THEN ParseChars(text, i + 2, Append(acc, text[i + 1]))
            ELSE IF text[i + 1] = "n" THEN ParseChars(text, i + 2, Append(acc, "\n"))
            ELSE IF text[i + 1] = "t" THEN ParseChars(text, i + 2, Append(acc, "\t"))
            ELSE ParseFail
  ELSE IF text[i] \in {"\n", "\t"} THEN ParseFail
  ELSE ParseChars(text, i + 1, Append(acc, text[i]))

RECURSIVE ParseDigits(_, _, _)
ParseDigits(text, i, acc) ==
  IF i <= Len(text) /\ text[i] \in DigitSet
  THEN ParseDigits(text, i + 1, acc * 10 + DigitValue(text[i]))
  ELSE Parsed(Num(acc), i)

RECURSIVE ParseName(_, _, _)
ParseName(text, i, acc) ==
  IF i <= Len(text) /\ text[i] \in NameChars
  THEN ParseName(text, i + 1, Append(acc, text[i]))
  ELSE Parsed(Enum(acc), i)

RECURSIVE ParseValue(_, _), ParseElems(_, _, _), ParseEntries(_, _, _)
ParseValue(text, i) ==
  IF i > Len(text) THEN ParseFail
  ELSE IF text[i] = "null" THEN Parsed(NULL, i + 1)
  ELSE IF text[i] = "true" THEN Parsed(Bool(TRUE), i + 1)
  ELSE IF text[i] = "false" THEN Parsed(Bool(FALSE), i + 1)
  ELSE IF text[i] = QUOTE THEN ParseChars(text, i + 1, <<>>)
  ELSE IF text[i] \in DigitSet THEN ParseDigits(text, i, 0)
  ELSE IF text[i] = "-"
       THEN IF i + 1 <= Len(text) /\ text[i + 1] \in DigitSet
            THEN LET r == ParseDigits(text, i + 1, 0)
                 IN Parsed(Num(0 - r.v.n), r.n)
            ELSE ParseFail
  ELSE IF text[i] \in NameChars THEN ParseName(text, i, <<>>)
  ELSE IF text[i] = "["
       THEN IF i + 1 <= Len(text) /\ text[i + 1] = "]"
            THEN Parsed(Arr(<<>>), i + 2)
            ELSE ParseElems(text, i + 1, <<>>)
  ELSE IF text[i] = "{ "
       THEN IF i + 1 <= Len(text) /\ text[i + 1] = " }"
            THEN Parsed(Obj(<<>>), i + 2)
            ELSE ParseEntries(text, i + 1, <<>>)
  ELSE ParseFail

ParseElems(text, i, acc) ==
  LET r == ParseValue(text, i)
  IN IF ~r.ok \/ r.n > Len(text) THEN ParseFail
     ELSE IF text[r.n] = ", " THEN ParseElems(text, r.n + 1, Append(acc, r.v))
     ELSE IF text[r.n] = "]" THEN Parsed(Arr(Append(acc, r.v)), r.n + 1)
     ELSE ParseFail

ParseEntries(text, i, acc) ==
  IF i + 1 > Len(text) \/ text[i + 1] # ": " \/ text[i] = QUOTE THEN ParseFail
  ELSE LET r == ParseValue(text, i + 2)
           entry == [k |-> text[i], v |-> r.v]
       IN IF ~r.ok \/ r.n > Len(text) THEN ParseFail
          ELSE IF text[r.n] = ", " THEN ParseEntries(text, r.n + 1, Append(acc, entry))
          ELSE IF text[r.n] = " }" THEN Parsed(Obj(Append(acc, entry)), r.n + 1)
          ELSE ParseFail

\* The value a whole text denotes, or a failure when it is not one literal.
ParseLiteral(text) ==
  LET r == ParseValue(text, 1)
  IN IF r.ok /\ r.n = Len(text) + 1 THEN r ELSE ParseFail

Serialized == pc = "done" /\ op = "toGraphQLLiteral"

BareIdentifiers == {<<"A", "S", "C">>, <<"D", "E", "S", "C">>}

\* The string and bare-name leaves of a value, in traversal order.
RECURSIVE StringLeaves(_)
StringLeaves(v) ==
  IF v.t \in {"string", "enum"} THEN <<v>>
  ELSE IF v.t = "array"
       THEN Join([i \in 1..Len(v.a) |-> StringLeaves(v.a[i])], <<>>)
  ELSE IF v.t = "object"
       THEN Join([i \in 1..Len(v.o) |-> StringLeaves(v.o[i].v)], <<>>)
  ELSE <<>>

ExpectedStringLeaf(leaf) ==
  IF leaf.s \in BareIdentifiers THEN Enum(leaf.s) ELSE Str(leaf.s)

(***************************************************************************)
(* C6: a string is emitted unquoted iff it is exactly ASC or DESC; every   *)
(* other string, at any nesting depth, is emitted as a double-quoted       *)
(* JSON-escaped literal that reads back as the same string.                *)
(***************************************************************************)
C6_EnumBareOtherStringsQuoted ==
  Serialized =>
    LET text == ret.text
        leaves == StringLeaves(arg.value)
        read == ParseLiteral(text)
    IN /\ ret.kind = "return"
       /\ read.ok
       /\ StringLeaves(read.v) =
            [i \in 1..Len(leaves) |-> ExpectedStringLeaf(leaves[i])]
       /\ arg.value.t = "string" =>
            /\ (text = arg.value.s) <=> (arg.value.s \in BareIdentifiers)
            /\ arg.value.s \notin BareIdentifiers =>
                 /\ Len(text) >= 2
                 /\ text[1] = QUOTE
                 /\ text[Len(text)] = QUOTE

C6_Witness ==
  /\ Serialized
  /\ arg.value = Obj(<<[k |-> "NAME", v |-> Arr(<<Str(ASC), Str(ASC_COMPANY)>>)],
                       [k |-> "eq", v |-> Str(ASC)]>>)
  /\ ret.text = <<"{ ", "NAME", ": ", "[", "A", "S", "C", ", ",
                  QUOTE, "A", "S", "C", "_", "C", "O", "M", "P", "A", "N", "Y", QUOTE,
                  "]", ", ", "eq", ": ", "A", "S", "C", " }">>

\* A value with every scalar leaf blanked: the nesting, the element counts
\* and the object keys in order.
RECURSIVE Skeleton(_)
Skeleton(v) ==
  IF v.t = "array" THEN Arr([i \in 1..Len(v.a) |-> Skeleton(v.a[i])])
  ELSE IF v.t = "object"
       THEN Obj([i \in 1..Len(v.o) |-> [k |-> v.o[i].k, v |-> Skeleton(v.o[i].v)]])
  ELSE [t |-> "leaf"]

(***************************************************************************)
(* C7: an array is its serialized elements joined with ', ' inside [ ],    *)
(* an object is its 'key: value' entries in key order joined with ', '     *)
(* inside '{ ' and ' }' with unquoted keys, at every nesting depth; the    *)
(* filter { and: [{YEAR:{eq:2024}}, {TRADE_FLOW:{eq:"1"}}] } yields        *)
(* unquoted keys, an unquoted 2024 and a quoted "1".                       *)
(***************************************************************************)
C7_ArraysAndObjectsNest ==
  Serialized =>
    LET text == ret.text
        read == ParseLiteral(text)
    IN /\ read.ok
       /\ Skeleton(read.v) = Skeleton(arg.value)
       /\ arg.value.t = "array" =>
            /\ text[1] = "[" /\ text[Len(text)] = "]"
            /\ Len(arg.value.a) = 0 => text = <<"[", "]">>
       /\ arg.value.t = "object" =>
            /\ text[1] = "{ " /\ text[Len(text)] = " }"
            /\ Len(arg.value.o) > 0 =>
                 /\ text[2] = arg.value.o[1].k
                 /\ text[3] = ": "
       /\ arg.value = AndFilter =>
            text = <<"{ ", "and", ": ", "[",
                     "{ ", "YEAR", ": ", "{ ", "eq", ": ", "2", "0", "2", "4", " }", " }",
                     ", ",
                     "{ ", "TRADE_FLOW", ": ", "{ ", "eq", ": ", QUOTE, "1", QUOTE, " }", " }",
                     "]", " }">>

C7_Witness ==
  /\ Serialized
  /\ arg.value = AndFilter
  /\ ParseLiteral(ret.text).ok
  /\ ParseLiteral(ret.text).v = AndFilter
  /\ Len(ret.text) = 30

\* The leaves that are neither strings nor containers, undefined read as null.
RECURSIVE PlainLeaves(_)
PlainLeaves(v) ==
  IF v.t \in {"null", "undefined"} THEN <<NULL>>
  ELSE IF v.t \in {"number", "boolean"} THEN <<v>>
  ELSE IF v.t = "array"
       THEN Join([i \in 1..Len(v.a) |-> PlainLeaves(v.a[i])], <<>>)
  ELSE IF v.t = "object"
       THEN Join([i \in 1..Len(v.o) |-> PlainLeaves(v.o[i].v)], <<>>)
  ELSE <<>>

(***************************************************************************)
(* C8: null or undefined yields the bare token null, a number its decimal  *)
(* text without quotes, a boolean the bare token true or false; these      *)
(* rules take priority over the array and object rules, so null and        *)
(* arrays are never serialized by the object rule.                         *)
(***************************************************************************)
C8_ScalarRulesAndPriority ==
  Serialized =>
    LET text == ret.text
        read == ParseLiteral(text)
        v == arg.value
    IN /\ read.ok
       /\ PlainLeaves(read.v) = PlainLeaves(v)
       /\ v.t \in {"null", "undefined"} => text = <<"null">>
       /\ v.t = "boolean" => text = IF v.b THEN <<"true">> ELSE <<"false">>
       /\ v.t = "number" =>
            /\ \A i \in 1..Len(text) : text[i] \in DigitSet \cup {"-"}
            /\ \A i \in 2..Len(text) : text[i] # "-"
            /\ (text[1] = "-") <=> (v.n < 0)
            /\ read.v = Num(v.n)
       /\ v.t = "array" => text[1] = "[" /\ read.v.t = "array"
       /\ v.t = "object" => read.v.t = "object"

C8_Witness ==
  /\ Serialized
  /\ arg.value = Obj(<<[k |-> "NAME", v |-> Arr(<<Num(1), UNDEFINED>>)],
                       [k |-> "eq", v |-> Num(1)]>>)
  /\ ret.text = <<"{ ", "NAME", ": ", "[", "1", ", ", "null", "]", ", ",
                  "eq", ": ", "1", " }">>

(***************************************************************************)
(* Reading an aggregation block back.                                      *)
(***************************************************************************)
RECURSIVE Split(_, _)
Split(seq, sep) ==
  LET i == IndexOf(seq, sep)
  IN IF i = 0 THEN <<seq>>
     ELSE <<SubSeq(seq, 1, i - 1)>> \o Split(SubSeq(seq, i + 1, Len(seq)), sep)

\* The lines between 'aggregations {' and its closing brace.
AggLines(text) ==
  Split(Between(text, "aggregations {\n          ", "\n        }"), NL10)
Fragments(text) == SelectSeq(AggLines(text), LAMBDA line : Len(line) > 0)

AggCalled == pc = "done" /\ op = "buildAggregationBlock"
GroupedQuery ==
  BuiltKnown /\ ret.kind = "return" /\ NonEmptyList(arg.params.groupBy)

\* The aggregation request and the numeric fields of the block in ret.
RequestedAggs == IF AggCalled THEN arg.aggregations ELSE arg.params.aggregations
NumericOfCall ==
  IF AggCalled THEN arg.numericFields
  ELSE DescriptorOf(arg.resolverKey).numericFields
IsNumeric(f) == \E i \in 1..Len(NumericOfCall) : NumericOfCall[i] = f

(***************************************************************************)
(* C9: the aggregation block is never empty: with the requested            *)
(* aggregations absent or an empty list it holds exactly one fragment, a   *)
(* bare count, and for every non-empty request it holds at least one       *)
(* fragment.                                                               *)
(***************************************************************************)
C9_AggregationBlockNeverEmpty ==
  (AggCalled \/ GroupedQuery) =>
    /\ ret.kind = "return"
    /\ IndexOf(ret.text, "aggregations {\n          ") > 0
    /\ AggCalled =>
         /\ ret.text[1] = "aggregations {\n          "
         /\ ret.text[Len(ret.text)] = "\n        }"
    /\ Len(Fragments(ret.text)) >= 1
    /\ Fragments(ret.text) = AggLines(ret.text)
    /\ ~NonEmptyList(RequestedAggs) => Fragments(ret.text) = << <<"count">> >>

C9_Witness ==
  /\ AggCalled
  /\ arg.aggregations = List(<<>>)
  /\ ret.text = <<"aggregations {\n          ", "count", "\n        }">>

(***************************************************************************)
(* C10: every requested entry whose field is missing or is not one of the  *)
(* resolver's numericFields yields a bare count, raises no error, and its  *)
(* function(field: ...) pair does not appear in the block.                 *)
(***************************************************************************)
C10_InvalidAggregationDowngraded ==
  ((AggCalled \/ GroupedQuery) /\ NonEmptyList(RequestedAggs)) =>
    \A i \in 1..Len(RequestedAggs.l) :
      LET agg == RequestedAggs.l[i]
          lines == Fragments(ret.text)
      IN (agg.field.t = "undefined" \/ ~IsNumeric(agg.field.i)) =>
           /\ ret.kind = "return"
           /\ \E j \in 1..Len(lines) : lines[j] = <<"count">>
           /\ agg.field.t # "undefined" =>
                /\ \A j \in 1..Len(lines) : ~Includes(lines[j], agg.field.i)
                /\ ~Includes(Between(ret.text, "aggregations {\n          ",
                                     "\n        }"), agg.field.i)

C10_Witness ==
  /\ AggCalled
  /\ arg.aggregations = List(<<[field |-> Id("ISO3"), function |-> Id("avg")],
                               [field |-> Id("YEAR"), function |-> Id("avg")]>>)
  /\ Includes(arg.numericFields, "YEAR")
  /\ ret.text = <<"aggregations {\n          ", "count", NL10,
                  "avg", "(field: ", "YEAR", ")", "\n        }">>

(***************************************************************************)
(* The fragment the aggregation rules give one requested entry, and the    *)
(* first occurrences of a sequence, read off by position.                  *)
(***************************************************************************)
RequestedFunction(agg) ==
  IF agg.function.t = "undefined" THEN "sum" ELSE agg.function.i
RequestedFragment(agg) ==
  IF agg.field.t # "undefined" /\ IsNumeric(agg.field.i)
  THEN <<RequestedFunction(agg), "(field: ", agg.field.i, ")">>
  ELSE <<"count">>
RequestedFragments ==
  [i \in 1..Len(RequestedAggs.l) |-> RequestedFragment(RequestedAggs.l[i])]
FirstOccurrences(seq) ==
  LET keep == {i \in 1..Len(seq) : \A j \in 1..(i - 1) : seq[j] # seq[i]}
      Nth[n \in 0..Cardinality(keep)] ==
        IF n = 0 THEN 0
        ELSE CHOOSE i \in keep : i > Nth[n - 1] /\ \A k \in keep : k > Nth[n - 1] => i <= k
  IN [n \in 1..Cardinality(keep) |-> seq[Nth[n]]]

(***************************************************************************)
(* C11: the fragments of an aggregation block are pairwise distinct, and   *)
(* they are the fragments of the requested entries in the order of their   *)
(* first appearance: entries giving the same fragment, several downgraded  *)
(* entries included, leave one line.                                       *)
(***************************************************************************)
C11_FragmentsDeduplicatedInOrder ==
  ((AggCalled \/ GroupedQuery) /\ NonEmptyList(RequestedAggs)) =>
    LET lines == Fragments(ret.text)
    IN /\ \A i, j \in 1..Len(lines) : i # j => lines[i] # lines[j]
       /\ lines = FirstOccurrences(RequestedFragments)
       /\ Cardinality({j \in 1..Len(lines) : lines[j] = <<"count">>}) <= 1

C11_Witness ==
  /\ AggCalled
  /\ arg.aggregations = List(<<[field |-> Id("YEAR"), function |-> Id("sum")],
                               [field |-> Id("YEAR"), function |-> UNDEFINED]>>)
  /\ Includes(arg.numericFields, "YEAR")
  /\ ret.text = <<"aggregations {\n          ",
                  "sum", "(field: ", "YEAR", ")", "\n        }">>

(***************************************************************************)
(* C12: every requested entry whose field is one of the resolver's         *)
(* numericFields yields the fragment <function>(field: <field>), with the  *)
(* field name bare, the function as given, and sum when no function was    *)
(* given.                                                                  *)
(***************************************************************************)
C12_NumericEntryYieldsFunctionCall ==
  ((AggCalled \/ GroupedQuery) /\ NonEmptyList(RequestedAggs)) =>
    \A i \in 1..Len(RequestedAggs.l) :
      LET agg == RequestedAggs.l[i]
          lines == Fragments(ret.text)
      IN (agg.field.t # "undefined" /\ IsNumeric(agg.field.i)) =>
           /\ ret.kind = "return"
           /\ agg.function.t # "undefined" =>
                \E j \in 1..Len(lines) :
                  lines[j] = <<agg.function.i, "(field: ", agg.field.i, ")">>
           /\ agg.function.t = "undefined" =>
                \E j \in 1..Len(lines) :
                  lines[j] = <<"sum", "(field: ", agg.field.i, ")">>

C12_Witness ==
  /\ GroupedQuery
  /\ arg.params.aggregations =
       List(<<[field |-> Id("YEAR"), function |-> UNDEFINED]>>)
  /\ IsNumeric("YEAR")
  /\ Fragments(ret.text) = << <<"sum", "(field: ", "YEAR", ")">> >>

(***************************************************************************)
(* C13: every query text built for a known resolver holds endCursor and    *)
(* hasNextPage, once each and in this order, inside the resolver's result  *)
(* block and directly after the closing brace of the items block, with or  *)
(* without a groupBy block.                                                *)
(***************************************************************************)
Occurrences(text, atom) == Cardinality({i \in 1..Len(text) : text[i] = atom})

C13_PageInfoAfterItems ==
  (BuiltKnown /\ ret.kind = "return") =>
    LET t == ret.text
        blockOpen == IndexOf(t, " {\n      ")
        itemsOpen == IndexOf(t, "items {\n        ")
        itemsClose == IndexFrom(t, "\n      }", itemsOpen)
        blockClose == IndexOf(t, "\n    }")
        e == IndexOf(t, "endCursor")
        h == IndexOf(t, "hasNextPage")
    IN /\ 0 < blockOpen /\ blockOpen < itemsOpen /\ itemsOpen < itemsClose
       /\ e = itemsClose + 2 /\ t[e - 1] = "\n      "
       /\ h = e + 2 /\ t[h - 1] = "\n      "
       /\ h < blockClose /\ blockClose = Len(t) - 1
       /\ Occurrences(t, "endCursor") = 1
       /\ Occurrences(t, "hasNextPage") = 1
       /\ NonEmptyList(arg.params.groupBy) =>
            LET g == IndexOf(t, "groupBy(fields: [")
            IN g = 0 \/ (h < g /\ g < blockClose)

C13_Witness ==
  /\ BuiltKnown
  /\ ret.kind = "return"
  /\ arg.params.groupBy = List(<<"YEAR">>)
  /\ IndexOf(ret.text, "groupBy(fields: [") > IndexOf(ret.text, "hasNextPage")
  /\ IndexOf(ret.text, "endCursor") > IndexOf(ret.text, "items {\n        ")

(***************************************************************************)
(* C17: with a registry key and a well-formed parameter bag buildQuery     *)
(* always returns a query: a call that raises was made with a key that is  *)
(* not in the registry, and unknown field names, unknown group-by names    *)
(* and invalid aggregation entries are dropped or downgraded, not raised.  *)
(***************************************************************************)
C17_KnownKeyNeverFails ==
  Built =>
    /\ arg.resolverKey \in OwnKeys => (ret.kind = "return" /\ Len(ret.text) > 0)
    /\ ret.kind = "throw" => arg.resolverKey \notin OwnKeys
    /\ ret.kind \in {"return", "throw"}

C17_Witness ==
  /\ BuiltKnown
  /\ arg.params.fields = List(<<"UNKNOWN_FIELD">>)
  /\ arg.params.groupBy = List(<<"UNKNOWN_FIELD">>)
  /\ ret.kind = "return"
  /\ ItemsOf(ret.text) = <<>>

(***************************************************************************)
(* C18: a first or after parameter supplied as null is omitted from the    *)
(* argument list exactly like one that was not supplied: the label of      *)
(* first (after) is absent iff the parameter is undefined or null, and     *)
(* the label of filter (orderBy) is absent iff the parameter is undefined, *)
(* null or an empty object.                                                *)
(***************************************************************************)
HasLabel(text, label) == \E i \in 1..Len(ArgsRegion(text)) : ArgsRegion(text)[i] = label
LabelFollowedBy(text, label, atom) ==
  \E i \in 1..(Len(ArgsRegion(text)) - 1) :
     ArgsRegion(text)[i] = label /\ ArgsRegion(text)[i + 1] = atom

C18_NullArgumentOmitted ==
  (BuiltKnown /\ ret.kind = "return") =>
    /\ ~HasLabel(ret.text, "first: ") <=> arg.params.first \in {UNDEFINED, NULL}
    /\ ~HasLabel(ret.text, "after: ") <=> arg.params.after \in {UNDEFINED, NULL}
    /\ ~HasLabel(ret.text, "filter: ") <=> ~NonEmptyObject(arg.params.filter)
    /\ ~HasLabel(ret.text, "orderBy: ") <=> ~NonEmptyObject(arg.params.orderBy)
    /\ ~LabelFollowedBy(ret.text, "first: ", "null")
    /\ ~LabelFollowedBy(ret.text, "after: ", "null")

C18_Witness ==
  /\ BuiltKnown
  /\ arg.params.first = NULL
  /\ arg.params.after = Str(<<"c", "1">>)
  /\ ret.kind = "return"
  /\ ArgsRegion(ret.text) = <<"(", "after: ", QUOTE, "c", "1", QUOTE, ")">>

\* C18 as stated: an argument is absent only when its parameter was not
\* supplied, and a first or after supplied as null is emitted as the
\* literal null.
C18_NullArgumentEmitted ==
  (BuiltKnown /\ ret.kind = "return") =>
    /\ arg.params.first = NULL => LabelFollowedBy(ret.text, "first: ", "null")
    /\ arg.params.after = NULL => LabelFollowedBy(ret.text, "after: ", "null")
    /\ ~HasLabel(ret.text, "first: ") => arg.params.first = UNDEFINED
    /\ ~HasLabel(ret.text, "after: ") => arg.params.after = UNDEFINED

C16_RegistryNeverChanges ==
  /\ Len(registry) = 5
  /\ Cardinality({registry[i].key : i \in 1..Len(registry)}) = 5
  /\ \A i \in 1..Len(registry) :
       /\ registry[i].key = RESOLVER_REGISTRY[i].key
       /\ registry[i].queryName = RESOLVER_REGISTRY[i].queryName
       /\ registry[i].fields = RESOLVER_REGISTRY[i].fields
       /\ registry[i].numericFields = RESOLVER_REGISTRY[i].numericFields

C16_Witness ==
  /\ pc = "done"
  /\ op = "getRegisteredResolvers"
  /\ Len(ret.list) = 5
  /\ registry = RESOLVER_REGISTRY
  /\ ret.list[4].fields = registry[4].fields

(***************************************************************************)
(* C19: in every descriptor of the registry, every name of numericFields   *)
(* is one of the descriptor's fields.                                      *)
(***************************************************************************)
C19_NumericFieldsSubsetOfFields ==
  \A i \in 1..Len(registry) :
    \A j \in 1..Len(registry[i].numericFields) :
      \E k \in 1..Len(registry[i].fields) :
        registry[i].fields[k] = registry[i].numericFields[j]

C19_Witness ==
  /\ pc = "done"
  /\ op = "getRegisteredResolvers"
  /\ \E i \in 1..Len(ret.list) :
       /\ ret.list[i].key = "TXN_MOF_NON_PROTECT_MT"
       /\ Len(ret.list[i].numericFields) = 6
       /\ \A j \in 1..6 :
            Includes(ret.list[i].fields, ret.list[i].numericFields[j])

(***************************************************************************)
(* C20: in every tool handler, when buildQuery raises no request is made:  *)
(* executeGraphQL is not invoked for that call and the handler resolves    *)
(* with isError true and the error's message as details; a request exists  *)
(* only after buildQuery has returned, and it carries the returned query.  *)
(***************************************************************************)
C20_NoRequestWhenBuildQueryRaises ==
  /\ hbuilt.kind = "throw" =>
       /\ Len(hsent) = 0
       /\ hpc = "returned"
       /\ hresult.kind = "resolved"
       /\ hresult.isError
       /\ hresult.json.error = HANDLERS[hcall.h].label
       /\ hresult.json.details = hbuilt.text
  /\ Len(hsent) > 0 =>
       /\ hbuilt.kind = "return"
       /\ Len(hsent) = 1
       /\ hsent[1].query = hbuilt.text
  /\ hpc = "awaiting" => (hbuilt.kind = "return" /\ Len(hsent) = 1)
  /\ hpc = "returned" => hresult.kind = "resolved"

C20_Witness ==
  /\ hpc = "returned"
  /\ hcall.tool = "query_trade_transactions"
  /\ hcall.params.fields = Str(<<"Y", "E", "A", "R">>)
  /\ hbuilt.kind = "throw"
  /\ hsent = <<>>
  /\ hresult.isError
  /\ hresult.json.details = <<"fields.filter is not a function">>

(***************************************************************************)
(* C14: buildQuery is history-independent: a call with the resolver key    *)
(* and a parameter bag equal (key order included) to those of an earlier   *)
(* call gives the same outcome, the same query text atom for atom,         *)
(* whatever buildQuery, getRegisteredResolvers and cache calls were made   *)
(* in between.                                                             *)
(***************************************************************************)
SameCallAgain ==
  /\ Built
  /\ seen.set
  /\ seen.resolverKey = arg.resolverKey
  /\ seen.params = arg.params

Executed == pc = "done" /\ op = "executeGraphQL"
CarriesErrors(response) ==
  response.errors.t = "list" /\ Len(response.errors.l) > 0

DocumentedMaxPageSize == 5000

C26_FirstTruncatedTo5000 ==
  (hpc # "idle" /\ hcall.params.first.t = "number") =>
    /\ hcall.passed.first.t = "number"
    /\ hcall.passed.first.n <= DocumentedMaxPageSize
    /\ hcall.params.first.n > DocumentedMaxPageSize =>
         hcall.passed.first = Num(DocumentedMaxPageSize)

(***************************************************************************)
(* C29: for every known resolver and every parameter bag, the items        *)
(* selection set of the text buildQuery returns holds at least one field   *)
(* name, also when params.fields is non-empty and names no known field.    *)
(***************************************************************************)
C29_ItemsSelectionNonEmpty ==
  (BuiltKnown /\ ret.kind = "return") => Len(ItemsOf(ret.text)) >= 1

(***************************************************************************)
(* C22: getCachedSchema returns the memory-cached schema when there is one *)
(* younger than the TTL; otherwise the file-cached schema when there is    *)
(* one younger than the TTL, which it also loads into the memory cache;    *)
(* otherwise null.  It never returns a schema whose age has reached the    *)
(* TTL, and an expired memory cache is cleared by the call.  The TTL is    *)
(* the one the call works with, options.ttlMs || DEFAULT_TTL_MS.           *)
(***************************************************************************)
C22_MemoryThenFileThenNull ==
  [][(pc = "idle" /\ pc' = "done" /\ op' = "getCachedSchema") =>
      LET ttl == IF arg'.ttlMs.t = "number" /\ arg'.ttlMs.n # 0
                 THEN arg'.ttlMs.n ELSE 24 * 60 * 60 * 1000
          memoryHit == /\ memoryCache # NULL
                       /\ memoryCacheTimestamp # NULL
                       /\ now - memoryCacheTimestamp.n < ttl
          fileHit == /\ cacheFile.exists
                     /\ arg'.readable
                     /\ now - cacheFile.cachedAt < ttl
          returned == ret'.schema
      IN /\ ret'.kind = "return"
         /\ memoryHit =>
              /\ returned = memoryCache
              /\ UNCHANGED <<memoryCache, memoryCacheTimestamp>>
         /\ (~memoryHit /\ fileHit) =>
              /\ returned = cacheFile.schema
              /\ memoryCache' = cacheFile.schema
              /\ memoryCacheTimestamp' = Num(cacheFile.cachedAt)
         /\ (~memoryHit /\ ~fileHit) =>
              /\ returned = NULL
              /\ memoryCache' = NULL
              /\ memoryCacheTimestamp' = NULL
         /\ returned # NULL =>
              /\ memoryCache' = returned
              /\ now - memoryCacheTimestamp'.n < ttl
         /\ UNCHANGED cacheFile
  ]_vars

C22_Witness ==
  /\ pc = "done"
  /\ op = "getCachedSchema"
  /\ arg.ttlMs = UNDEFINED
  /\ arg.readable
  /\ cacheFile.exists
  /\ cacheFile.cachedAt = 1
  /\ now = 1 + DEFAULT_TTL_MS
  /\ ret.schema = NULL
  /\ memoryCache = NULL

(***************************************************************************)
(* C24: clearCache clears every cache layer: a getCachedSchema made after  *)
(* clearCache, with no setCachedSchema since, finds nothing cached and     *)
(* returns null.                                                           *)
(***************************************************************************)
C24_NothingCachedAfterClear ==
  (pc = "done" /\ op = "getCachedSchema" /\ cleared) => ret.schema = NULL

(***************************************************************************)
(* C30: whatever getCachedSchema, setCachedSchema and clearCache calls     *)
(* have run or are suspended, memoryCache and memoryCacheTimestamp are     *)
(* both null or both set, so getCacheStatus reports a cache age exactly    *)
(* when it reports a cached schema.                                        *)
(***************************************************************************)
C30_MemoryAndTimestampTogether ==
  /\ memoryCache = NULL <=> memoryCacheTimestamp = NULL
  /\ memoryCache # NULL =>
       /\ memoryCache \in SchemaPool
       /\ memoryCacheTimestamp.t = "number"
       /\ memoryCacheTimestamp.n >= 1
       /\ memoryCacheTimestamp.n <= now
  /\ (pc = "done" /\ op = "getCacheStatus") =>
       (ret.hasMemoryCache <=> ret.memoryCacheAge # NULL)

C30_Witness ==
  /\ pc = "done"
  /\ op = "getCacheStatus"
  /\ ret.hasMemoryCache
  /\ ret.memoryCacheAge = Num(TickMs)
  /\ getCall.pc = "read"
  /\ setCall.pc = "writing"
  /\ cleared = FALSE

C27_MemoryNeverGoesBack ==
  [][(memoryCache # NULL /\ memoryCache' # NULL) =>
       \/ UNCHANGED <<memoryCache, memoryCacheTimestamp>>
       \/ /\ setCall.pc = "idle"
          /\ setCall'.pc = "writing"
          /\ memoryCache' = setCall'.schema
          /\ memoryCacheTimestamp'.n >= memoryCacheTimestamp.n
  ]_vars

(***************************************************************************)
(* C25: the introspect-schema handler calls the upstream API only when it  *)
(* must.  Without forceRefresh and with an unexpired cached schema it      *)
(* returns that schema marked _source 'cache' and sends no request; with   *)
(* forceRefresh true, or with no unexpired cache, it sends the             *)
(* introspection query, and when that succeeds it stores the result in     *)
(* the cache and returns it marked _source 'api'.                          *)
(***************************************************************************)
Introspecting == hpc # "idle" /\ hcall.tool = "introspect-schema"
UnexpiredInMemory(before) ==
  /\ before.memoryCache # NULL
  /\ before.now - before.memoryCacheTimestamp.n < 24 * 60 * 60 * 1000
UnexpiredInFile(before, readable) ==
  /\ before.cacheFile.exists
  /\ readable
  /\ before.now - before.cacheFile.cachedAt < 24 * 60 * 60 * 1000
Succeeded(response) ==
  /\ response.kind = "response"
  /\ response.ok
  /\ response.errors \in {UNDEFINED, NULL, List(<<>>)}

C25_ApiCalledOnlyWhenNeeded ==
  Introspecting =>
    LET before == hcall.before
        forced == hcall.forceRefresh = Bool(TRUE)
        cached == IF UnexpiredInMemory(before) THEN before.memoryCache
                  ELSE IF UnexpiredInFile(before, hcall.readable)
                  THEN before.cacheFile.schema
                  ELSE NULL
    IN IF ~forced /\ cached # NULL
       THEN /\ hpc = "returned"
            /\ hsent = <<>>
            /\ ~hresult.isError
            /\ hresult.json._source = "cache"
            /\ hresult.json.result = cached
            /\ memoryCache = cached
            /\ cacheFile = before.cacheFile
       ELSE /\ hsent = <<[query |-> INTROSPECTION_QUERY]>>
            /\ (hpc = "returned" /\ Succeeded(hcall.response)) =>
                 /\ ~hresult.isError
                 /\ hresult.json._source = "api"
                 /\ hresult.json.result.id.data = hcall.response.data
                 /\ memoryCache = hresult.json.result
                 /\ memoryCacheTimestamp # NULL
            /\ (hpc = "returned" /\ ~Succeeded(hcall.response)) =>
                 hresult.isError

C25_Witness ==
  /\ Introspecting
  /\ hpc = "returned"
  /\ hcall.forceRefresh = UNDEFINED
  /\ hcall.before.memoryCache = NULL
  /\ hcall.before.cacheFile.exists
  /\ hsent = <<>>
  /\ hresult.json._source = "cache"
  /\ hresult.json.result = cacheFile.schema
  /\ hresult.json._cacheAge = Num(TickMs)

(***************************************************************************)
(* C28: when the API fetch of the introspect-schema handler fails, the     *)
(* handler returns an isError result and leaves both cache layers exactly  *)
(* as they were before the call: nothing is stored and no previously       *)
(* cached schema is discarded, forced or not.                              *)
(***************************************************************************)
FetchFailed ==
  /\ Introspecting
  /\ hpc = "returned"
  /\ Len(hsent) = 1
  /\ ~Succeeded(hcall.response)

C28_FailedFetchLeavesCacheAsBefore ==
  FetchFailed =>
    /\ hresult.isError
    /\ memoryCache = hcall.before.memoryCache
    /\ memoryCacheTimestamp = hcall.before.memoryCacheTimestamp
    /\ cacheFile = hcall.before.cacheFile

(***************************************************************************)
(* C28 as amended: when the API fetch fails the handler returns an isError *)
(* result, stores nothing and leaves the file cache exactly as it was; the *)
(* memory cache is as it was before the call, except that a call without   *)
(* forceRefresh has cleared a memory entry whose age had already reached   *)
(* the TTL.  No unexpired cached schema is discarded.                      *)
(***************************************************************************)
C28_FailedFetchKeepsUnexpiredCache ==
  FetchFailed =>
    LET before == hcall.before
        expired == /\ before.memoryCache # NULL
                   /\ ~UnexpiredInMemory(before)
    IN /\ hresult.isError
       /\ hresult.json.error = "Schema introspection failed"
       /\ cacheFile = before.cacheFile
       /\ IF hcall.forceRefresh # Bool(TRUE) /\ expired
          THEN memoryCache = NULL /\ memoryCacheTimestamp = NULL
          ELSE /\ memoryCache = before.memoryCache
               /\ memoryCacheTimestamp = before.memoryCacheTimestamp

C28_Witness ==
  /\ FetchFailed
  /\ hresult.isError
  /\ hcall.forceRefresh = Bool(FALSE)
  /\ hcall.before.memoryCache # NULL
  /\ memoryCache = NULL
  /\ cacheFile.exists
  /\ cacheFile = hcall.before.cacheFile

====
